---- MODULE Spec2Model ----
(***************************************************************************)
(* Weekly leader rotation and reminder scheduler of the Bible-study bot    *)
(* (src/main.py).  Instants are seconds of Brisbane wall-clock time since  *)
(* 2024-01-01 00:00 (a Monday); Brisbane keeps no daylight saving, so      *)
(* local arithmetic is uniform.  A date label ("Sat 29/11") is the record  *)
(* [wd, day, month]; it carries no year, exactly as the stored string.     *)
(* The clock has a resolution of one second and a handler reads it once:   *)
(* the microseconds between two datetime.now() calls of one handler are    *)
(* not modelled.                                                           *)
(***************************************************************************)
EXTENDS Integers, Sequences, FiniteSets, TLC

VARIABLES
    now,                    \* the wall clock, datetime.now(BRISBANE_TZ)
    schedule,               \* schedule.json, key "default": the rotation
    last_reminder_date,     \* global guard of send_24h_reminders
    last_6h_reminder_time,  \* global guard of send_6h_reminders
    dm_log,                 \* dm_log.json
    outbox,                 \* messages the transport has delivered, in order
    active_messages,        \* handles of the rendered schedule messages
    guilds,                 \* bot.guilds, each with its members and channels
    display_name,           \* the directory: member id -> display name
    pc,                     \* position of reminder_loop inside its tick
    last,                   \* the handler that ran last, what it read, its reply
    pending_updates,        \* update_all_schedule_messages() coroutines queued by the web thread
    ticks,                  \* ticks of reminder_loop so far
    ops,                    \* chat and web requests served so far
    logged_in,              \* 'logged_in' in session, for the dashboard's browser
    store,                  \* schedule.json on disk: "valid", "missing" or "malformed"
    web_thread,             \* the Flask request between its load_schedule and its save_schedule
    chat_history,           \* chat_history.json
    tasks                   \* coroutines of the event loop in flight, each with what it loaded

vars == << now, schedule, last_reminder_date, last_6h_reminder_time, dm_log,
           outbox, active_messages, guilds, display_name, pc, last,
           pending_updates, ticks, ops, logged_in, store, web_thread, chat_history,
           tasks >>

-----------------------------------------------------------------------------
(* Bounds of the model.                                                    *)

MaxTicks == 2
MaxOps == 1
MaxLen == 3

-----------------------------------------------------------------------------
(* Program constants.  Discord snowflakes are opaque identifiers; they are *)
(* numbered from 1 here.                                                   *)

ALLOWED_GUILD_ID == 1
REMINDER_CHANNEL_ID == 1
STUDY_HOUR == 19
STUDY_MINUTE == 30
DM_LOG_CAP == 100
CHAT_HISTORY_CAP == 100
HISTORY_LIMIT == 50
SEND_DM_TIMEOUT == 5
LOAD_HISTORY_TIMEOUT == 10
None == -1

Users == {1, 2, 3}

-----------------------------------------------------------------------------
(* The calendar of datetime / timedelta.                                   *)

Day == 24 * 3600
Week == 7 * Day
Years == 2024 .. 2030

IsLeap(y) == (y % 4 = 0 /\ y % 100 # 0) \/ y % 400 = 0

\* days from 2024-01-01 to January 1st of year y
DaysBeforeYear(y) == 365 * (y - 2024) + ((y - 2024 + 3) \div 4)

DaysInMonth(y, m) ==
    IF m = 2 THEN (IF IsLeap(y) THEN 29 ELSE 28)
    ELSE IF m \in {4, 6, 9, 11} THEN 30 ELSE 31

\* days of the year before the first of month m, in a common year
CumulativeDays == << 0, 31, 59, 90, 120, 151, 181, 212, 243, 273, 304, 334 >>

DaysBeforeMonth(y, m) == CumulativeDays[m] + (IF IsLeap(y) /\ m > 2 THEN 1 ELSE 0)

\* datetime(y, m, d) raises ValueError exactly when this is false
ValidDate(y, m, d) == m \in 1 .. 12 /\ d >= 1 /\ d <= DaysInMonth(y, m)

\* the day number of a valid date
DayNumber(y, m, d) == DaysBeforeYear(y) + DaysBeforeMonth(y, m) + (d - 1)

DayOf(t) == t \div Day
YearOfDay(n) == CHOOSE y \in Years : DaysBeforeYear(y) <= n /\ n < DaysBeforeYear(y + 1)
MonthOfDay(n) ==
    LET y == YearOfDay(n)
        k == n - DaysBeforeYear(y)
    IN CHOOSE m \in 1 .. 12 :
           DaysBeforeMonth(y, m) <= k /\ k < DaysBeforeMonth(y, m) + DaysInMonth(y, m)
DayOfMonth(n) ==
    LET y == YearOfDay(n)
    IN n - DaysBeforeYear(y) - DaysBeforeMonth(y, MonthOfDay(n)) + 1

\* the civil date of every day number of the calendar, computed once
Civil ==
    [n \in 0 .. DaysBeforeYear(2031) - 1 |->
        [year |-> YearOfDay(n), month |-> MonthOfDay(n), day |-> DayOfMonth(n)]]

YearOf(t) == Civil[DayOf(t)].year
\* datetime.weekday(): Monday is 0, Saturday is 5
Weekday(t) == DayOf(t) % 7
HourOf(t) == (t % Day) \div 3600
MinuteOf(t) == (t % 3600) \div 60

\* BRISBANE_TZ.localize(datetime(y, m, d, STUDY_HOUR, STUDY_MINUTE, 0))
StudyInstant(y, m, d) ==
    DayNumber(y, m, d) * Day + STUDY_HOUR * 3600 + STUDY_MINUTE * 60

-----------------------------------------------------------------------------
(* Time oracle.                                                            *)

START_DATE == DayNumber(2025, 11, 29) * Day

get_date_for_week(week_index) == START_DATE + week_index * Week

\* strftime("%a %d/%m"): weekday name, day and month; the year is dropped
format_date(date) ==
    [wd |-> Weekday(date), day |-> Civil[DayOf(date)].day, month |-> Civil[DayOf(date)].month]

\* a stored date string whose last token is not "<int>/<int>" of a real day
BadLabel == [wd |-> 0, day |-> 0, month |-> 0]

\* parse_date_string with day and month read in the wrong order
parse_date_string_Swapped(date_str, t) ==
    LET year == YearOf(t)
        d == date_str.month
        m == date_str.day
    IN IF ~ValidDate(year, m, d) THEN None
       ELSE IF StudyInstant(year, m, d) < t
            THEN (IF ValidDate(year + 1, m, d) THEN StudyInstant(year + 1, m, d) ELSE None)
            ELSE StudyInstant(year, m, d)

parse_date_string(date_str, t) ==
    LET year == YearOf(t)
        d == date_str.day
        m == date_str.month
    IN IF ~ValidDate(year, m, d) THEN None
       ELSE IF StudyInstant(year, m, d) < t
            THEN (IF ValidDate(year + 1, m, d) THEN StudyInstant(year + 1, m, d) ELSE None)
            ELSE StudyInstant(year, m, d)

\* has_past_study_time without its minute clause
has_past_study_time_HourOnly(t) == HourOf(t) > STUDY_HOUR

has_past_study_time(t) ==
    HourOf(t) > STUDY_HOUR \/ (HourOf(t) = STUDY_HOUR /\ MinuteOf(t) >= STUDY_MINUTE)

\* "Fallback: find the next Saturday", shared by lines 230-237 and 250-255
NextSaturday(t) ==
    LET d0 == (5 + 7 - Weekday(t)) % 7
        days_until_saturday == IF d0 = 0 /\ has_past_study_time(t) THEN 7 ELSE d0
    IN (DayOf(t) + days_until_saturday) * Day + STUDY_HOUR * 3600 + STUDY_MINUTE * 60

\* get_next_study_time returning the head's instant without testing it against now
get_next_study_time_HeadAlways(current_schedule, t) ==
    IF current_schedule # << >>
       /\ parse_date_string(current_schedule[1].date, t) # None
    THEN parse_date_string(current_schedule[1].date, t)
    ELSE NextSaturday(t)

\* get_next_study_time accepting a head that is not before now (>= for > at line 226)
get_next_study_time_NotBefore(current_schedule, t) ==
    IF current_schedule # << >>
       /\ parse_date_string(current_schedule[1].date, t) # None
       /\ parse_date_string(current_schedule[1].date, t) >= t
    THEN parse_date_string(current_schedule[1].date, t)
    ELSE NextSaturday(t)

get_next_study_time(current_schedule, t) ==
    IF current_schedule # << >>
       /\ parse_date_string(current_schedule[1].date, t) # None
       /\ parse_date_string(current_schedule[1].date, t) > t
    THEN parse_date_string(current_schedule[1].date, t)
    ELSE NextSaturday(t)

\* get_next_schedule_date without the roll to next week (lines 251-252)
get_next_schedule_date_NoRoll(sched, t) ==
    IF sched # << >> /\ parse_date_string(sched[Len(sched)].date, t) # None
    THEN parse_date_string(sched[Len(sched)].date, t) + Week
    ELSE (DayOf(t) + ((5 + 7 - Weekday(t)) % 7)) * Day
         + STUDY_HOUR * 3600 + STUDY_MINUTE * 60

get_next_schedule_date(sched, t) ==
    IF sched # << >> /\ parse_date_string(sched[Len(sched)].date, t) # None
    THEN parse_date_string(sched[Len(sched)].date, t) + Week
    ELSE NextSaturday(t)

get_countdown(current_schedule, t) ==
    LET delta == get_next_study_time(current_schedule, t) - t
    IN IF delta > 0 THEN delta ELSE 0

-----------------------------------------------------------------------------
(* Rotation store helpers.                                                 *)

Entry(id, name, date) == [id |-> id, name |-> name, date |-> date]

get_user_ids(schedule_list) == {schedule_list[i].id : i \in 1 .. Len(schedule_list)}

\* 1-based index of the first entry with that id, 0 when there is none (-1 in the code)
\* find_user_index answering with the last entry of that id
find_user_index_Last(schedule_list, user_id) ==
    IF \E i \in 1 .. Len(schedule_list) : schedule_list[i].id = user_id
    THEN CHOOSE i \in 1 .. Len(schedule_list) :
             /\ schedule_list[i].id = user_id
             /\ \A j \in i + 1 .. Len(schedule_list) : schedule_list[j].id # user_id
    ELSE 0

find_user_index(schedule_list, user_id) ==
    IF \E i \in 1 .. Len(schedule_list) : schedule_list[i].id = user_id
    THEN CHOOSE i \in 1 .. Len(schedule_list) :
             /\ schedule_list[i].id = user_id
             /\ \A j \in 1 .. i - 1 : schedule_list[j].id # user_id
    ELSE 0

\* list.pop(index)
Pop(s, i) == [j \in 1 .. Len(s) - 1 |-> IF j < i THEN s[j] ELSE s[j + 1]]

\* list.remove(x) that removes nothing
RemoveFirst_Skip(s, x) == s

\* list.remove(x): drops the first element equal to x
RemoveFirst(s, x) ==
    IF \E i \in 1 .. Len(s) : s[i] = x
    THEN Pop(s, CHOOSE i \in 1 .. Len(s) : s[i] = x /\ \A j \in 1 .. i - 1 : s[j] # x)
    ELSE s

-----------------------------------------------------------------------------
(* The directory and the transport.                                        *)

NoGuild == [id |-> 0, members |-> {}, channels |-> {}]

\* bot.get_guild(guild_id)
get_guild(guild_id) ==
    IF \E i \in 1 .. Len(guilds) : guilds[i].id = guild_id
    THEN guilds[CHOOSE i \in 1 .. Len(guilds) : guilds[i].id = guild_id]
    ELSE NoGuild

\* log_dm: append, keep the last DM_LOG_CAP entries
log_dm(logs, user_id, user_name, message_type, status, t) ==
    LET appended == Append(logs, [timestamp |-> t, user_id |-> user_id,
                                  user_name |-> user_name, type |-> message_type,
                                  status |-> status])
    IN IF Len(appended) > DM_LOG_CAP
       THEN SubSeq(appended, Len(appended) - DM_LOG_CAP + 1, Len(appended))
       ELSE appended

-----------------------------------------------------------------------------
(* Rotation engine.                                                        *)

\* refresh_member_names writing a placeholder for members it does not find
refresh_member_names_Unknown(guild, sched) ==
    IF guild = NoGuild THEN sched
    ELSE [i \in 1 .. Len(sched) |->
             IF sched[i].id \in guild.members
             THEN [sched[i] EXCEPT !.name = display_name[sched[i].id]]
             ELSE [sched[i] EXCEPT !.name = "Unknown"]]

\* the rotation stored after refresh_member_names(guild)
refresh_member_names(guild, sched) ==
    IF guild = NoGuild THEN sched
    ELSE [i \in 1 .. Len(sched) |->
             IF sched[i].id \in guild.members /\ sched[i].name # display_name[sched[i].id]
             THEN [sched[i] EXCEPT !.name = display_name[sched[i].id]]
             ELSE sched[i]]

\* the flag `updated` of refresh_member_names: some stored name differed
NamesUpdated(guild, sched) ==
    /\ guild # NoGuild
    /\ \E i \in 1 .. Len(sched) :
          sched[i].id \in guild.members /\ sched[i].name # display_name[sched[i].id]

\* the rotation stored after format_schedule(guild, None)
format_schedule(guild, sched) ==
    LET refreshed == refresh_member_names(guild, sched)
    IN [i \in 1 .. Len(refreshed) |->
           IF refreshed[i].id \in guild.members
              /\ refreshed[i].name # display_name[refreshed[i].id]
           THEN Entry(refreshed[i].id, display_name[refreshed[i].id], refreshed[i].date)
           ELSE refreshed[i]]

FetchOutcomes == {"ok", "not_found", "forbidden", "edit_not_found", "error"}

\* the loop of update_all_schedule_messages over active_messages[i ..]; st is
\* [schedule, remove]: the stored rotation and messages_to_remove so far
RECURSIVE UpdateLoop(_, _, _, _)
UpdateLoop(msgs, outcome, i, st) ==
    IF i > Len(msgs) THEN st
    ELSE LET guild == get_guild(msgs[i].guild_id)
             gone == [st EXCEPT !.remove = Append(st.remove, msgs[i])]
             rendered == [st EXCEPT !.schedule = format_schedule(guild, st.schedule)]
         IN UpdateLoop(msgs, outcome, i + 1,
                IF guild = NoGuild THEN gone
                ELSE IF msgs[i].channel_id \notin guild.channels THEN gone
                ELSE IF outcome[i] \in {"not_found", "forbidden"} THEN gone
                ELSE IF outcome[i] = "edit_not_found"
                     THEN [rendered EXCEPT !.remove = Append(rendered.remove, msgs[i])]
                ELSE IF outcome[i] = "ok" THEN rendered
                ELSE st)

RECURSIVE RemoveAll(_, _)
RemoveAll(msgs, remove) ==
    IF remove = << >> THEN msgs
    ELSE RemoveAll(RemoveFirst(msgs, Head(remove)), Tail(remove))

\* active_messages.json after save_active_messages(messages): json.dump of a
\* list of handles, each three integers
save_active_messages(messages) ==
    [i \in 1 .. Len(messages) |->
        [guild_id |-> messages[i].guild_id, channel_id |-> messages[i].channel_id,
         message_id |-> messages[i].message_id]]

\* [schedule, active_messages, saved] after update_all_schedule_messages()
update_all_schedule_messages(sched, msgs, outcome) ==
    LET st == UpdateLoop(msgs, outcome, 1, [schedule |-> sched, remove |-> << >>])
    IN [schedule |-> st.schedule, active_messages |-> RemoveAll(msgs, st.remove),
        saved |-> save_active_messages(RemoveAll(msgs, st.remove))]

\* the loop condition of advance_schedule_if_needed taken a week early
HeadDue_Eager(sched, t) ==
    /\ sched # << >>
    /\ parse_date_string(sched[1].date, t) # None
    /\ t >= parse_date_string(sched[1].date, t) - Week

\* advance_schedule_if_needed goes round its loop once more: the rotation is
\* not empty, the head's label parses, and its instant is not after now
HeadDue(sched, t) ==
    /\ sched # << >>
    /\ parse_date_string(sched[1].date, t) # None
    /\ t >= parse_date_string(sched[1].date, t)

\* the loop body re-appending the popped head with the label it had
RotateHead_KeepDate(sched, t) ==
    Append(Tail(sched), sched[1])

\* the loop body popping the head without appending it again (line 354 left out)
RotateHead_Drop(sched, t) ==
    Tail(sched)

\* the loop body: pop the head and append it dated a week after the last entry
RotateHead(sched, t) ==
    LET scheduled_date == parse_date_string(sched[1].date, t)
        rest == Tail(sched)
        tail_date == IF rest = << >> THEN None
                     ELSE parse_date_string(rest[Len(rest)].date, t)
        last_date == IF rest = << >> \/ tail_date = None
                     THEN scheduled_date ELSE tail_date
        completed == [sched[1] EXCEPT !.date = format_date(last_date + Week)]
    IN Append(rest, completed)

\* the while loop of advance_schedule_if_needed; st is [schedule, changed]
RECURSIVE AdvanceLoop(_, _)
AdvanceLoop(st, t) ==
    IF HeadDue(st.schedule, t)
    THEN AdvanceLoop([schedule |-> RotateHead(st.schedule, t), changed |-> TRUE], t)
    ELSE st

\* advance_schedule_if_needed reporting a change without keeping the rotated list
advance_schedule_if_needed_Discard(sched, t) ==
    [schedule |-> sched,
     changed |-> AdvanceLoop([schedule |-> sched, changed |-> FALSE], t).changed]

advance_schedule_if_needed(sched, t) ==
    AdvanceLoop([schedule |-> sched, changed |-> FALSE], t)

\* pass_week relabelling the mover alone
PassRotate_MoverOnly(sched, name) ==
    Append(Tail(sched), [sched[1] EXCEPT !.name = name,
                                         !.date = format_date(get_date_for_week(Len(sched) - 1))])

\* the long-lead window with its bounds included
InLongWindow_Inclusive(time_until) == 23 * 3600 <= time_until /\ time_until <= 25 * 3600

\* the rotation pass_week saves (lines 471-483)
PassRotate(sched, name) ==
    LET moved == Append(Tail(sched), [sched[1] EXCEPT !.name = name])
    IN [i \in 1 .. Len(moved) |->
           [moved[i] EXCEPT !.date = format_date(get_date_for_week(i - 1))]]

-----------------------------------------------------------------------------
(* Reminder windows.                                                       *)

\* the long-lead window kept open until the session
InLongWindow_UntilSession(time_until) == 0 < time_until /\ time_until < 25 * 3600

InLongWindow(time_until) == 23 * 3600 < time_until /\ time_until < 25 * 3600

\* 5.5 * 3600 < time_until < 6.5 * 3600
InShortWindow(time_until) == 19800 < time_until /\ time_until < 23400

\* line 602: the long-lead guard
LongGuardHit(guard, next_study) == guard = DayOf(next_study)

\* the short-lead guard with the hour taken for a minute
ShortGuardHit_Minute(guard, t) == guard # None /\ t - guard < 60

\* line 635: the short-lead guard
ShortGuardHit(guard, t) == guard # None /\ t - guard < 3600

\* the for loop of send_24h_reminders over bot.guilds[i ..]; sent[i] tells whether
\* member.send succeeds in guild i; st is [guard, log, out]
RECURSIVE Send24hLoop(_, _, _, _, _)
Send24hLoop(i, sent, next_study, t, st) ==
    IF i > Len(guilds) THEN st
    ELSE LET leader == schedule[1]
             delivered ==
                 [guard |-> DayOf(next_study),
                  log |-> log_dm(st.log, leader.id, display_name[leader.id],
                                 "24h_reminder", "sent", t),
                  out |-> Append(st.out, [kind |-> "dm", to |-> leader.id,
                                          study |-> next_study])]
             failed ==
                 [st EXCEPT !.log = log_dm(st.log, leader.id, leader.name,
                                           "24h_reminder", "failed", t)]
         IN Send24hLoop(i + 1, sent, next_study, t,
                IF schedule = << >> THEN st
                ELSE IF leader.id \notin guilds[i].members THEN st
                ELSE IF sent[i] THEN delivered ELSE failed)

\* send_24h_reminders setting its guard after the loop, sent or not
send_24h_reminders_GuardOnAttempt(sent, t) ==
    LET next_study == get_next_study_time(schedule, t)
        st == [guard |-> last_reminder_date, log |-> dm_log, out |-> outbox]
    IN IF LongGuardHit(last_reminder_date, next_study) THEN st
       ELSE IF InLongWindow(next_study - t)
            THEN [Send24hLoop(1, sent, next_study, t, st)
                    EXCEPT !.guard = DayOf(next_study)]
            ELSE st

send_24h_reminders(sent, t) ==
    LET next_study == get_next_study_time(schedule, t)
        st == [guard |-> last_reminder_date, log |-> dm_log, out |-> outbox]
    IN IF LongGuardHit(last_reminder_date, next_study) THEN st
       ELSE IF InLongWindow(next_study - t)
            THEN Send24hLoop(1, sent, next_study, t, st)
            ELSE st

\* the for loop of send_6h_reminders over bot.guilds[i ..]; sent[i] tells whether
\* channel.send succeeds in guild i; st is [guard, log, out]
RECURSIVE Send6hLoop(_, _, _, _, _)
Send6hLoop(i, sent, next_study, t, st) ==
    IF i > Len(guilds) THEN st
    ELSE LET leader_id == schedule[1].id
             member_name == IF leader_id \in guilds[i].members
                            THEN display_name[leader_id] ELSE "Unknown"
             delivered ==
                 [guard |-> t,
                  log |-> log_dm(st.log, leader_id, member_name, "6h_reminder", "sent", t),
                  out |-> Append(st.out, [kind |-> "channel", to |-> leader_id,
                                          study |-> next_study])]
             failed ==
                 [st EXCEPT !.log = log_dm(st.log, leader_id, "Unknown",
                                           "6h_reminder", "failed", t)]
         IN Send6hLoop(i + 1, sent, next_study, t,
                IF guilds[i].id # ALLOWED_GUILD_ID THEN st
                ELSE IF schedule = << >> THEN st
                ELSE IF REMINDER_CHANNEL_ID \notin guilds[i].channels THEN st
                ELSE IF sent[i] THEN delivered ELSE failed)

send_6h_reminders(sent, t) ==
    LET next_study == get_next_study_time(schedule, t)
        st == [guard |-> last_6h_reminder_time, log |-> dm_log, out |-> outbox]
    IN IF ShortGuardHit(last_6h_reminder_time, t) THEN st
       ELSE IF InShortWindow(next_study - t)
            THEN Send6hLoop(1, sent, next_study, t, st)
            ELSE st

-----------------------------------------------------------------------------
(* Initial states.                                                         *)

At(y, m, d, hh, mm, ss) == DayNumber(y, m, d) * Day + hh * 3600 + mm * 60 + ss

\* the first session of the rotation anchored at START_DATE
Anchor == START_DATE + STUDY_HOUR * 3600 + STUDY_MINUTE * 60

Names == [u \in Users |-> IF u = 1 THEN "Ann" ELSE IF u = 2 THEN "Ben" ELSE "Cy"]

Slot(u, k) == Entry(u, Names[u], format_date(get_date_for_week(k)))

\* moments the process is started at, around the anchor session
StartTimes ==
    { Anchor - 25 * 3600 - 60,      \* a minute before the long-lead window opens
      Anchor - 23400 - 30,          \* half a minute before the short-lead window opens
      Anchor - 90,                  \* a minute and a half before the session
      Anchor + 1800 - 60 }          \* half an hour past the session

\* rotations found in schedule.json at start
InitSchedules ==
    { << >>,
      << Slot(1, 0) >>,
      << Slot(1, 0), Slot(2, 1) >>,
      << Entry(2, "Benny", format_date(get_date_for_week(0) + Day)), Slot(1, 2) >> }

Guild(id, members, channels) == [id |-> id, members |-> members, channels |-> channels]

InitGuilds ==
    { << Guild(ALLOWED_GUILD_ID, Users, {REMINDER_CHANNEL_ID}) >>,
      << Guild(ALLOWED_GUILD_ID, Users, {REMINDER_CHANNEL_ID}), Guild(2, {1, 2}, {2}) >> }

Handle(g, c, m) == [guild_id |-> g, channel_id |-> c, message_id |-> m]

InitActive == { << Handle(ALLOWED_GUILD_ID, REMINDER_CHANNEL_ID, 1) >> }

\* what the last handler was, its argument (the member of a pass or an add), its
\* reply, the rotation it loaded, the clock it read and the number it returned
Handled(op, arg, result, before, at, value) ==
    [op |-> op, arg |-> arg, result |-> result, before |-> before, at |-> at,
     value |-> value]

NoHandler == Handled("none", 0, "", << >>, 0, None)

\* no Flask request is between its load and its save
Idle == [op |-> "idle", arg |-> 0, loaded |-> << >>]

Init ==
    /\ now \in StartTimes
    /\ schedule \in InitSchedules
    /\ last_reminder_date = None
    /\ last_6h_reminder_time = None
    /\ dm_log = << >>
    /\ outbox = << >>
    /\ active_messages \in InitActive
    /\ guilds \in InitGuilds
    /\ display_name = Names
    /\ pc = "sleep"
    /\ last = NoHandler
    /\ pending_updates = 0
    /\ ticks = 0
    /\ ops = 0
    /\ logged_in = FALSE
    /\ store = "valid"
    /\ web_thread = Idle
    /\ chat_history = << >>
    /\ tasks = << >>

-----------------------------------------------------------------------------
(* reminder_loop: sleep, advance, long-lead evaluation, short-lead         *)
(* evaluation.  asyncio.sleep(60) returns no sooner than 60 s later.       *)

SleepDeltas == {60, 90, 3600}

Sleep(d) ==
    /\ pc = "sleep"
    /\ ticks < MaxTicks
    /\ now' = now + d
    /\ ticks' = ticks + 1
    /\ pc' = "advance"
    /\ UNCHANGED << schedule, last_reminder_date, last_6h_reminder_time, dm_log, outbox,
                    active_messages, guilds, display_name, last, pending_updates, ops >>
    /\ UNCHANGED << logged_in, store, web_thread, chat_history, tasks >>

Advance(outcome) ==
    LET adv == advance_schedule_if_needed(schedule, now)
        upd == update_all_schedule_messages(adv.schedule, active_messages, outcome)
    IN /\ pc = "advance"
       /\ pc' = "send_24h"
       /\ IF adv.changed
          THEN /\ schedule' = upd.schedule
               /\ active_messages' = upd.active_messages
          ELSE UNCHANGED << schedule, active_messages >>
       /\ last' = Handled("advance", 0, IF adv.changed THEN "changed" ELSE "unchanged",
                          schedule, now, None)
       /\ UNCHANGED << now, last_reminder_date, last_6h_reminder_time, dm_log, outbox,
                       guilds, display_name, pending_updates, ticks, ops >>
       /\ store = "valid"
       /\ UNCHANGED << logged_in, store, web_thread, chat_history, tasks >>

Send24h(sent) ==
    LET st == send_24h_reminders(sent, now)
    IN /\ pc = "send_24h"
       /\ pc' = "send_6h"
       /\ last_reminder_date' = st.guard
       /\ dm_log' = st.log
       /\ outbox' = st.out
       /\ last' = Handled("send_24h", 0, IF st.out # outbox THEN "sent" ELSE "",
                          schedule, now, get_next_study_time(schedule, now))
       /\ UNCHANGED << now, schedule, last_6h_reminder_time, active_messages, guilds,
                       display_name, pending_updates, ticks, ops >>
       /\ store = "valid"
       /\ UNCHANGED << logged_in, store, web_thread, chat_history, tasks >>

Send6h(sent) ==
    LET st == send_6h_reminders(sent, now)
    IN /\ pc = "send_6h"
       /\ pc' = "sleep"
       /\ last_6h_reminder_time' = st.guard
       /\ dm_log' = st.log
       /\ outbox' = st.out
       /\ last' = Handled("send_6h", 0, IF st.out # outbox THEN "sent" ELSE "",
                          schedule, now, get_next_study_time(schedule, now))
       /\ UNCHANGED << now, schedule, last_reminder_date, active_messages, guilds,
                       display_name, pending_updates, ticks, ops >>
       /\ store = "valid"
       /\ UNCHANGED << logged_in, store, web_thread, chat_history, tasks >>

-----------------------------------------------------------------------------
(* Chat handlers.                                                          *)

\* pass_week without the head check (lines 460-469)
PassRejection_MemberOnly(sched, actor) ==
    IF actor \notin get_user_ids(sched) THEN "not_in_schedule" ELSE ""

\* the early returns of pass_week (lines 455-469); "" when the press is accepted
PassRejection(sched, actor) ==
    IF actor \notin get_user_ids(sched) THEN "not_in_schedule"
    ELSE IF sched[1].id # actor THEN "not_head" ELSE ""

\* ScheduleView.pass_week, pressed by actor on a view built for view_guild
PassWeek(actor, view_guild, outcome) ==
    LET rejected == PassRejection(schedule, actor)
        saved == PassRotate(schedule, display_name[actor])
        shown == format_schedule(view_guild, saved)
        upd == update_all_schedule_messages(shown, active_messages, outcome)
    IN /\ ops < MaxOps
       /\ ops' = ops + 1
       /\ IF rejected # ""
          THEN UNCHANGED << schedule, active_messages >>
          ELSE /\ schedule' = upd.schedule
               /\ active_messages' = upd.active_messages
       /\ last' = Handled("pass", actor, IF rejected # "" THEN rejected ELSE "ok",
                          schedule, now, None)
       /\ UNCHANGED << now, last_reminder_date, last_6h_reminder_time, dm_log, outbox,
                       guilds, display_name, pc, pending_updates, ticks >>
       /\ store = "valid"
       /\ UNCHANGED << logged_in, store, web_thread, chat_history, tasks >>

\* /add, invoked in guild for one of its members
add_user(guild, user, outcome) ==
    LET next_date == format_date(get_next_schedule_date(schedule, now))
        saved == Append(schedule, Entry(user, display_name[user], next_date))
        shown == format_schedule(guild, saved)
        upd == update_all_schedule_messages(shown, active_messages, outcome)
    IN /\ ops < MaxOps
       /\ ops' = ops + 1
       /\ user \in guild.members
       /\ IF guild.id # ALLOWED_GUILD_ID
          THEN /\ UNCHANGED << schedule, active_messages >>
               /\ last' = Handled("add", user, "wrong_guild", schedule, now, None)
          ELSE /\ Len(schedule) < MaxLen
               /\ schedule' = upd.schedule
               /\ active_messages' = upd.active_messages
               /\ last' = Handled("add", user, "ok", schedule, now, None)
       /\ UNCHANGED << now, last_reminder_date, last_6h_reminder_time, dm_log, outbox,
                       guilds, display_name, pc, pending_updates, ticks >>
       /\ store = "valid"
       /\ UNCHANGED << logged_in, store, web_thread, chat_history, tasks >>

\* /remove, invoked in guild for one of its members
remove_user(guild, user, outcome) ==
    LET index == find_user_index(schedule, user)
        saved == Pop(schedule, index)
        shown == format_schedule(guild, saved)
        upd == update_all_schedule_messages(shown, active_messages, outcome)
    IN /\ ops < MaxOps
       /\ ops' = ops + 1
       /\ user \in guild.members
       /\ store = "valid"
       /\ IF guild.id # ALLOWED_GUILD_ID
          THEN /\ UNCHANGED << schedule, active_messages >>
               /\ last' = Handled("remove", user, "wrong_guild", schedule, now, None)
          ELSE IF index = 0
          THEN /\ UNCHANGED << schedule, active_messages >>
               /\ last' = Handled("remove", user, "not_in_schedule", schedule, now, None)
          ELSE /\ schedule' = upd.schedule
               /\ active_messages' = upd.active_messages
               /\ last' = Handled("remove", user, "ok", schedule, now, None)
       /\ UNCHANGED << now, last_reminder_date, last_6h_reminder_time, dm_log, outbox,
                       guilds, display_name, pc, pending_updates, ticks >>
       /\ UNCHANGED << logged_in, store, web_thread, chat_history, tasks >>

-----------------------------------------------------------------------------
(* Web handlers (Flask thread).                                            *)

\* POST /api/add
api_add_user(user_id, user_name) ==
    LET present == user_id \in get_user_ids(schedule)
        next_date == format_date(get_next_schedule_date(schedule, now))
    IN /\ ops < MaxOps
       /\ ops' = ops + 1
       /\ IF present
          THEN UNCHANGED << schedule, pending_updates >>
          ELSE /\ Len(schedule) < MaxLen
               /\ schedule' = Append(schedule, Entry(user_id, user_name, next_date))
               /\ pending_updates' = pending_updates + 1
       /\ last' = Handled("api_add", user_id, IF present THEN "already_in_schedule" ELSE "ok",
                          schedule, now, None)
       /\ UNCHANGED << now, last_reminder_date, last_6h_reminder_time, dm_log, outbox,
                       active_messages, guilds, display_name, pc, ticks >>
       /\ store = "valid"
       /\ UNCHANGED << logged_in, store, web_thread, chat_history, tasks >>

\* GET /api/countdown
get_countdown_api ==
    /\ ops < MaxOps
    /\ ops' = ops + 1
    /\ last' = Handled("countdown", 0, "ok", schedule, now, get_countdown(schedule, now))
    /\ UNCHANGED << now, schedule, last_reminder_date, last_6h_reminder_time, dm_log,
                    outbox, active_messages, guilds, display_name, pc, pending_updates,
                    ticks >>
    /\ store = "valid"
    /\ UNCHANGED << logged_in, store, web_thread, chat_history, tasks >>

\* the coroutine trigger_discord_update queued, run by the event loop
RunQueuedUpdate(outcome) ==
    LET upd == update_all_schedule_messages(schedule, active_messages, outcome)
    IN /\ pending_updates > 0
       /\ pending_updates' = pending_updates - 1
       /\ schedule' = upd.schedule
       /\ active_messages' = upd.active_messages
       /\ last' = Handled("update_all", 0, "ok", schedule, now, None)
       /\ UNCHANGED << now, last_reminder_date, last_6h_reminder_time, dm_log, outbox,
                       guilds, display_name, pc, ticks, ops >>
       /\ store = "valid"
       /\ UNCHANGED << logged_in, store, web_thread, chat_history, tasks >>

\* POST /api/remove
api_remove_user(user_id) ==
    LET index == find_user_index(schedule, user_id)
    IN /\ ops < MaxOps
       /\ ops' = ops + 1
       /\ store = "valid"
       /\ IF index = 0
          THEN UNCHANGED << schedule, pending_updates >>
          ELSE /\ schedule' = Pop(schedule, index)
               /\ pending_updates' = pending_updates + 1
       /\ last' = Handled("api_remove", user_id, IF index = 0 THEN "not_in_schedule" ELSE "ok",
                          schedule, now, None)
       /\ UNCHANGED << now, last_reminder_date, last_6h_reminder_time, dm_log, outbox,
                       active_messages, guilds, display_name, pc, ticks >>
       /\ UNCHANGED << logged_in, store, web_thread, chat_history, tasks >>

\* the rotation update_date saves: the first entry with that id gets the new label
SetDate(sched, user_id, new_date) ==
    LET index == find_user_index(sched, user_id)
    IN IF index = 0 THEN sched
       ELSE [sched EXCEPT ![index] = [@ EXCEPT !.date = new_date]]

\* POST /api/update-date; the label is whatever text the request carries
update_date(user_id, new_date) ==
    /\ ops < MaxOps
    /\ ops' = ops + 1
    /\ store = "valid"
    /\ schedule' = SetDate(schedule, user_id, new_date)
    /\ pending_updates' = pending_updates + 1
    /\ last' = Handled("update_date", user_id, "ok", schedule, now, None)
    /\ UNCHANGED << now, last_reminder_date, last_6h_reminder_time, dm_log, outbox,
                    active_messages, guilds, display_name, pc, ticks >>
    /\ UNCHANGED << logged_in, store, web_thread, chat_history, tasks >>

\* POST /api/reorder; the request carries the whole rotation in its new order
reorder_schedule(new_order) ==
    /\ ops < MaxOps
    /\ ops' = ops + 1
    /\ store = "valid"
    /\ schedule' = new_order
    /\ pending_updates' = pending_updates + 1
    /\ last' = Handled("reorder", 0, "ok", schedule, now, None)
    /\ UNCHANGED << now, last_reminder_date, last_6h_reminder_time, dm_log, outbox,
                    active_messages, guilds, display_name, pc, ticks >>
    /\ UNCHANGED << logged_in, store, web_thread, chat_history, tasks >>

\* POST /login and POST /api/login, with or without the admin credentials
login(credentials_ok) ==
    /\ logged_in' = (logged_in \/ credentials_ok)
    /\ last' = Handled("login", 0, IF credentials_ok THEN "ok" ELSE "invalid_credentials",
                       schedule, now, None)
    /\ UNCHANGED << now, schedule, last_reminder_date, last_6h_reminder_time, dm_log,
                    outbox, active_messages, guilds, display_name, pc, pending_updates,
                    ticks, ops, store, web_thread, chat_history, tasks >>

\* GET /logout and GET /api/logout: session.clear()
logout ==
    /\ logged_in' = FALSE
    /\ last' = Handled("logout", 0, "ok", schedule, now, None)
    /\ UNCHANGED << now, schedule, last_reminder_date, last_6h_reminder_time, dm_log,
                    outbox, active_messages, guilds, display_name, pc, pending_updates,
                    ticks, ops, store, web_thread, chat_history, tasks >>

-----------------------------------------------------------------------------
(* The time oracle on its own: a label written by format_date, read back   *)
(* by parse_date_string.                                                   *)

RoundTrip(d) ==
    /\ ops < MaxOps
    /\ ops' = ops + 1
    /\ last' = Handled("round_trip", d, "", schedule, now,
                       parse_date_string(format_date(d), now))
    /\ UNCHANGED << now, schedule, last_reminder_date, last_6h_reminder_time, dm_log,
                    outbox, active_messages, guilds, display_name, pc, pending_updates,
                    ticks >>
    /\ UNCHANGED << logged_in, store, web_thread, chat_history, tasks >>

-----------------------------------------------------------------------------

Outcomes == [1 .. Len(active_messages) -> FetchOutcomes]
Sends == [1 .. Len(guilds) -> BOOLEAN]
\* a view is built for the guild /schedule ran in, or for None by on_ready (line 728)
ViewGuilds == {get_guild(ALLOWED_GUILD_ID), NoGuild}

Next ==
    \/ \E d \in SleepDeltas : Sleep(d)
    \/ \E outcome \in Outcomes : Advance(outcome)
    \/ \E sent \in Sends : Send24h(sent)
    \/ \E sent \in Sends : Send6h(sent)
    \/ \E actor \in Users, g \in ViewGuilds, outcome \in Outcomes : PassWeek(actor, g, outcome)
    \/ \E i \in 1 .. Len(guilds), user \in Users, outcome \in Outcomes :
           add_user(guilds[i], user, outcome)
    \/ \E user_id \in Users : api_add_user(user_id, Names[user_id])
    \/ get_countdown_api
    \/ \E outcome \in Outcomes : RunQueuedUpdate(outcome)

Spec == Init /\ [][Next]_vars

\* the reminder loop, with the head free to pass between its steps
NextReminders ==
    \/ \E d \in SleepDeltas : Sleep(d)
    \/ \E outcome \in Outcomes : Advance(outcome)
    \/ \E sent \in Sends : Send24h(sent)
    \/ \E sent \in Sends : Send6h(sent)
    \/ \E actor \in Users, g \in ViewGuilds, outcome \in Outcomes : PassWeek(actor, g, outcome)

\* reminder_loop is "while True: await asyncio.sleep(60); advance; 24h; 6h" on
\* the event loop: a step of the loop that is due is eventually taken
LoopFairness ==
    /\ WF_vars(\E d \in SleepDeltas : Sleep(d))
    /\ WF_vars(\E outcome \in Outcomes : Advance(outcome))
    /\ WF_vars(\E sent \in Sends : Send24h(sent))
    /\ WF_vars(\E sent \in Sends : Send6h(sent))

SpecReminders == Init /\ [][NextReminders]_vars /\ LoopFairness

\* the requests that change the rotation, while the reminder loop sleeps
NextRotation ==
    \/ \E actor \in Users, g \in ViewGuilds, outcome \in Outcomes : PassWeek(actor, g, outcome)
    \/ \E i \in 1 .. Len(guilds), user \in Users, outcome \in Outcomes :
           add_user(guilds[i], user, outcome)
    \/ \E user_id \in Users : api_add_user(user_id, Names[user_id])
    \/ \E outcome \in Outcomes : RunQueuedUpdate(outcome)

SpecRotation == Init /\ [][NextRotation]_vars

-----------------------------------------------------------------------------
(* The dashboard and the chat commands editing a rotation that starts in   *)
(* date order.                                                             *)

\* the dates resolve, at clock t, to instants that do not decrease from head to tail
DateOrdered(sched, t) ==
    \A i, j \in 1 .. Len(sched) :
        (/\ i < j
         /\ parse_date_string(sched[i].date, t) # None
         /\ parse_date_string(sched[j].date, t) # None)
        => parse_date_string(sched[i].date, t) <= parse_date_string(sched[j].date, t)

\* labels a dashboard user types into the date field
DashboardDates == {format_date(get_date_for_week(k)) : k \in 0 .. 2} \cup {BadLabel}

\* the orders the dashboard can post: the stored entries, dragged into any order
Reorderings(sched) ==
    {[i \in 1 .. Len(sched) |-> sched[f[i]]] :
        f \in {g \in [1 .. Len(sched) -> 1 .. Len(sched)] :
                  \A a, b \in 1 .. Len(sched) : a # b => g[a] # g[b]}}

InitDashboard == Init /\ DateOrdered(schedule, now)

NextDashboard ==
    \/ \E actor \in Users, g \in ViewGuilds, outcome \in Outcomes : PassWeek(actor, g, outcome)
    \/ \E i \in 1 .. Len(guilds), user \in Users, outcome \in Outcomes :
           add_user(guilds[i], user, outcome)
    \/ \E i \in 1 .. Len(guilds), user \in Users, outcome \in Outcomes :
           remove_user(guilds[i], user, outcome)
    \/ \E user_id \in Users : api_add_user(user_id, Names[user_id])
    \/ \E user_id \in Users : api_remove_user(user_id)
    \/ \E user_id \in Users, new_date \in DashboardDates : update_date(user_id, new_date)
    \/ \E new_order \in Reorderings(schedule) : reorder_schedule(new_order)
    \/ \E credentials_ok \in BOOLEAN : login(credentials_ok)
    \/ logout
    \/ \E outcome \in Outcomes : RunQueuedUpdate(outcome)

SpecDashboard == InitDashboard /\ [][NextDashboard]_vars

-----------------------------------------------------------------------------
(* The rotation store.  Every handler starts with load_schedule; when      *)
(* schedule.json is missing or does not parse, the except branch of        *)
(* load_all_schedules runs first and the handler goes on with the empty    *)
(* mapping.  While the file is malformed, schedule is the rotation its     *)
(* damaged text still holds.                                               *)

StoreStates == {"valid", "missing", "malformed"}

\* the except branch of load_all_schedules (lines 280-283)
load_all_schedules ==
    /\ store # "valid"
    /\ store' = "valid"
    /\ schedule' = << >>
    /\ last' = Handled("load", 0, "empty_mapping", schedule, now, None)
    /\ UNCHANGED << now, last_reminder_date, last_6h_reminder_time, dm_log, outbox,
                    active_messages, guilds, display_name, pc, pending_updates, ticks,
                    ops, logged_in, web_thread, chat_history, tasks >>

InitStore ==
    /\ now \in StartTimes
    /\ store \in StoreStates
    /\ schedule \in (IF store = "missing" THEN {<< >>} ELSE InitSchedules)
    /\ last_reminder_date = None
    /\ last_6h_reminder_time = None
    /\ dm_log = << >>
    /\ outbox = << >>
    /\ active_messages \in InitActive
    /\ guilds \in InitGuilds
    /\ display_name = Names
    /\ pc = "sleep"
    /\ last = NoHandler
    /\ pending_updates = 0
    /\ ticks = 0
    /\ ops = 0
    /\ logged_in = FALSE
    /\ web_thread = Idle
    /\ chat_history = << >>
    /\ tasks = << >>

NextStore ==
    \/ load_all_schedules
    \/ NextRotation

SpecStore == InitStore /\ [][NextStore]_vars

-----------------------------------------------------------------------------
(* The two contexts.  The Flask thread runs beside the event loop: between *)
(* a web handler's load_schedule and its save_schedule the event loop can  *)
(* serve a whole chat handler (which holds no await between its own load   *)
(* and save).  web_thread keeps what the request loaded.                   *)

WebMutations == {"api_add", "api_remove"}

\* the reply a web mutation gives right after its load, "" when it goes on to save
WebRejection(loaded, op, user_id) ==
    IF op = "api_add"
    THEN (IF user_id \in get_user_ids(loaded) THEN "already_in_schedule" ELSE "")
    ELSE (IF find_user_index(loaded, user_id) = 0 THEN "not_in_schedule" ELSE "")

\* the rotation save_schedule would write had the handler loaded the file again
WebResult_Reload(loaded, current, op, user_id, t) ==
    IF op = "api_add"
    THEN Append(current, Entry(user_id, Names[user_id],
                               format_date(get_next_schedule_date(current, t))))
    ELSE Pop(current, find_user_index(current, user_id))

\* the rotation the handler passes to save_schedule: built from the list it
\* loaded, whatever schedule.json holds by now (current)
WebResult(loaded, current, op, user_id, t) ==
    IF op = "api_add"
    THEN Append(loaded, Entry(user_id, Names[user_id],
                              format_date(get_next_schedule_date(loaded, t))))
    ELSE Pop(loaded, find_user_index(loaded, user_id))

\* api_add_user / api_remove_user up to the membership test (lines 903-910, 922-927);
\* the request is admitted while ops < MaxOps and counted when it is answered
web_load(op, user_id) ==
    LET rejected == WebRejection(schedule, op, user_id)
    IN /\ web_thread = Idle
       /\ ops < MaxOps
       /\ store = "valid"
       /\ op = "api_add" => Len(schedule) < MaxLen
       /\ IF rejected # ""
          THEN /\ last' = Handled(op, user_id, rejected, schedule, now, 0)
               /\ ops' = ops + 1
               /\ UNCHANGED web_thread
          ELSE /\ web_thread' = [op |-> op, arg |-> user_id, loaded |-> schedule]
               /\ UNCHANGED << last, ops >>
       /\ UNCHANGED << now, schedule, last_reminder_date, last_6h_reminder_time, dm_log,
                       outbox, active_messages, guilds, display_name, pc, pending_updates,
                       ticks, logged_in, store, chat_history, tasks >>

\* the rest of the handler: mutate the loaded list, save_schedule, trigger_discord_update;
\* last.value is 1 when the file it replaces is no longer the one it loaded
web_save ==
    /\ web_thread # Idle
    /\ store = "valid"
    /\ schedule' = WebResult(web_thread.loaded, schedule, web_thread.op, web_thread.arg, now)
    /\ pending_updates' = pending_updates + 1
    /\ ops' = ops + 1
    /\ web_thread' = Idle
    /\ last' = Handled(web_thread.op, web_thread.arg, "ok", web_thread.loaded, now,
                       IF schedule # web_thread.loaded THEN 1 ELSE 0)
    /\ UNCHANGED << now, last_reminder_date, last_6h_reminder_time, dm_log, outbox,
                    active_messages, guilds, display_name, pc, ticks, logged_in,
                    store, chat_history, tasks >>

NextRace ==
    \/ \E op \in WebMutations, user_id \in Users : web_load(op, user_id)
    \/ web_save
    \/ \E actor \in Users, g \in ViewGuilds, outcome \in Outcomes : PassWeek(actor, g, outcome)
    \/ \E i \in 1 .. Len(guilds), user \in Users, outcome \in Outcomes :
           add_user(guilds[i], user, outcome)
    \/ \E outcome \in Outcomes : RunQueuedUpdate(outcome)

SpecRace == Init /\ [][NextRace]_vars

-----------------------------------------------------------------------------
(* The messaging console: chat_history.json, written by the Flask thread   *)
(* (save_chat_message), by on_message and by fetch_dm_history_from_discord. *)

FromUser(user_id) == << "user", user_id >>
FromAdmin == << "admin", 0 >>
FromBot == << "bot", 0 >>

ChatEntry(from, t) == [from |-> from, timestamp |-> t]

\* messages[-100:] once the list is longer than the cap, keeping the oldest instead
KeepLast_Oldest(messages) ==
    IF Len(messages) > CHAT_HISTORY_CAP
    THEN SubSeq(messages, 1, CHAT_HISTORY_CAP)
    ELSE messages

\* messages[-100:] once the list is longer than the cap
KeepLast(messages) ==
    IF Len(messages) > CHAT_HISTORY_CAP
    THEN SubSeq(messages, Len(messages) - CHAT_HISTORY_CAP + 1, Len(messages))
    ELSE messages

\* chat_history.json after save_chat_message(from_user, text)
save_chat_message(messages, from_user, t) == KeepLast(Append(messages, ChatEntry(from_user, t)))

\* the loop of fetch_dm_history_from_discord over the fetched messages[i ..]; st is
\* [messages, seen]: existing_messages and existing_user_messages
RECURSIVE FetchLoop(_, _, _, _)
FetchLoop(fetched, user_id, i, st) ==
    IF i > Len(fetched) THEN st
    ELSE FetchLoop(fetched, user_id, i + 1,
             IF fetched[i].created_at \in st.seen THEN st
             ELSE IF fetched[i].author = "bot" THEN st
             ELSE [messages |-> Append(st.messages,
                                       ChatEntry(FromUser(user_id), fetched[i].created_at)),
                   seen |-> st.seen \cup {fetched[i].created_at}])

\* chat_history.json after fetch_dm_history_from_discord(user_id)
fetch_dm_history_from_discord(messages, user_id, fetched) ==
    LET seen == {messages[i].timestamp :
                    i \in {j \in 1 .. Len(messages) : messages[j].from = FromUser(user_id)}}
    IN KeepLast(FetchLoop(fetched, user_id, 1, [messages |-> messages, seen |-> seen]).messages)

\* POST /api/send-chat-message: the admin writes to a member; delivered tells
\* whether the DM could be handed to the transport
send_chat_message(user_id, delivered) ==
    /\ ops < MaxOps
    /\ ops' = ops + 1
    /\ IF ~logged_in
       THEN /\ UNCHANGED << chat_history, outbox >>
            /\ last' = Handled("send_chat", user_id, "not_authenticated", schedule, now, 0)
       ELSE /\ chat_history' = save_chat_message(chat_history, FromAdmin, now)
            /\ outbox' = IF delivered
                          THEN Append(outbox, [kind |-> "chat", to |-> user_id, study |-> None])
                          ELSE outbox
            /\ last' = Handled("send_chat", user_id, IF delivered THEN "ok" ELSE "not_sent",
                               schedule, now, 1)
    /\ UNCHANGED << now, schedule, last_reminder_date, last_6h_reminder_time, dm_log,
                    active_messages, guilds, display_name, pc, pending_updates, ticks,
                    logged_in, store, web_thread, tasks >>

\* POST /api/add-bot-message
add_bot_message ==
    /\ ops < MaxOps
    /\ ops' = ops + 1
    /\ IF ~logged_in
       THEN /\ UNCHANGED chat_history
            /\ last' = Handled("add_bot_message", 0, "not_authenticated", schedule, now, 0)
       ELSE /\ chat_history' = save_chat_message(chat_history, FromBot, now)
            /\ last' = Handled("add_bot_message", 0, "ok", schedule, now, 1)
    /\ UNCHANGED << now, schedule, last_reminder_date, last_6h_reminder_time, dm_log, outbox,
                    active_messages, guilds, display_name, pc, pending_updates, ticks,
                    logged_in, store, web_thread, tasks >>

\* on_message for a DM written by a member
on_message(author) ==
    /\ ops < MaxOps
    /\ ops' = ops + 1
    /\ chat_history' = KeepLast(Append(chat_history, ChatEntry(FromUser(author), now)))
    /\ last' = Handled("on_message", author, "ok", schedule, now, 1)
    /\ UNCHANGED << now, schedule, last_reminder_date, last_6h_reminder_time, dm_log, outbox,
                    active_messages, guilds, display_name, pc, pending_updates, ticks,
                    logged_in, store, web_thread, tasks >>

\* POST /api/load-dm-history/<user_id>; fetched is what dm_channel.history returns,
\* oldest first; last.value is the number of messages it added
load_dm_history(user_id, fetched) ==
    LET seen == {chat_history[i].timestamp :
                    i \in {j \in 1 .. Len(chat_history) :
                              chat_history[j].from = FromUser(user_id)}}
        st == FetchLoop(fetched, user_id, 1, [messages |-> chat_history, seen |-> seen])
    IN /\ ops < MaxOps
       /\ ops' = ops + 1
       /\ IF ~logged_in
          THEN /\ UNCHANGED chat_history
               /\ last' = Handled("load_dm_history", user_id, "not_authenticated",
                                  schedule, now, 0)
          ELSE /\ chat_history' = fetch_dm_history_from_discord(chat_history, user_id, fetched)
               /\ last' = Handled("load_dm_history", user_id, "ok", schedule, now,
                                  Len(st.messages) - Len(chat_history))
       /\ UNCHANGED << now, schedule, last_reminder_date, last_6h_reminder_time, dm_log,
                       outbox, active_messages, guilds, display_name, pc, pending_updates,
                       ticks, logged_in, store, web_thread, tasks >>

\* what Discord returns for dm_channel.history(limit=50): nothing, a short
\* exchange with a message of the bot and a repeated timestamp, a full page
DiscordHistories ==
    { << >>,
      << [author |-> "bot", created_at |-> 5], [author |-> "user", created_at |-> 6],
         [author |-> "user", created_at |-> 6], [author |-> "user", created_at |-> 7] >>,
      [i \in 1 .. HISTORY_LIMIT |-> [author |-> "user", created_at |-> 1000 + i]] }

\* the member the admin corresponds with
Correspondents == {1}

\* logs found on disk at start: n entries, the oldest first
StoredDmLog(n) ==
    [i \in 1 .. n |-> [timestamp |-> i, user_id |-> 1, user_name |-> "Ann",
                       type |-> "24h_reminder", status |-> "sent"]]
StoredChat(n) == [i \in 1 .. n |-> ChatEntry(FromUser(1), i)]

\* a clock before the long-lead window with logs one short of the cap, a clock
\* before the short-lead window with full logs, and a first start with none
InitLogs ==
    /\ \E start \in { << Anchor - 25 * 3600 - 60, DM_LOG_CAP - 1 >>,
                       << Anchor - 23400 - 30, DM_LOG_CAP >>,
                       << Anchor - 23400 - 30, 0 >> } :
           /\ now = start[1]
           /\ dm_log = StoredDmLog(start[2])
           /\ chat_history = StoredChat(start[2])
    /\ schedule = << Slot(1, 0) >>
    /\ last_reminder_date = None
    /\ last_6h_reminder_time = None
    /\ outbox = << >>
    /\ active_messages \in InitActive
    /\ guilds = << Guild(ALLOWED_GUILD_ID, Users, {REMINDER_CHANNEL_ID}), Guild(2, {1, 2}, {2}) >>
    /\ display_name = Names
    /\ pc = "sleep"
    /\ last = NoHandler
    /\ pending_updates = 0
    /\ ticks = 0
    /\ ops = 0
    /\ logged_in \in BOOLEAN
    /\ store = "valid"
    /\ web_thread = Idle
    /\ tasks = << >>

NextLogs ==
    \/ \E d \in SleepDeltas : Sleep(d)
    \/ \E outcome \in Outcomes : Advance(outcome)
    \/ \E sent \in Sends : Send24h(sent)
    \/ \E sent \in Sends : Send6h(sent)
    \/ \E user_id \in Correspondents, delivered \in BOOLEAN :
           send_chat_message(user_id, delivered)
    \/ add_bot_message
    \/ \E author \in Correspondents : on_message(author)
    \/ \E user_id \in Correspondents, fetched \in DiscordHistories :
           load_dm_history(user_id, fetched)

SpecLogs == InitLogs /\ [][NextLogs]_vars

-----------------------------------------------------------------------------
(* The time oracle and the requests that read the clock, at clock readings *)
(* spread over a week, the turn of a year and a leap day.                  *)

MaxWeek == 8

ClockProbes ==
    {Anchor - 4 * Day + k * 10800 : k \in 0 .. 55}
    \cup {Anchor - 30, Anchor + 30, Anchor + 900, Anchor + 1800,
          At(2024, 8, 3, 21, 15, 0),
          At(2025, 12, 31, 23, 59, 30), At(2026, 1, 1, 0, 0, 0),
          At(2027, 3, 1, 0, 0, 0), At(2028, 2, 29, 12, 0, 0), At(2028, 3, 1, 0, 0, 0)}

SessionDates ==
    {get_date_for_week(k) + STUDY_HOUR * 3600 + STUDY_MINUTE * 60 : k \in 0 .. MaxWeek}
    \cup {At(2024, 8, 3, STUDY_HOUR, STUDY_MINUTE, 0),
          At(2028, 2, 29, STUDY_HOUR, STUDY_MINUTE, 0)}

InitClock ==
    /\ now \in ClockProbes
    /\ schedule \in {<< >>, << Slot(1, 0), Slot(2, 1) >>}
    /\ last_reminder_date = None
    /\ last_6h_reminder_time = None
    /\ dm_log = << >>
    /\ outbox = << >>
    /\ active_messages \in InitActive
    /\ guilds = << Guild(ALLOWED_GUILD_ID, Users, {REMINDER_CHANNEL_ID}) >>
    /\ display_name = Names
    /\ pc = "sleep"
    /\ last = NoHandler
    /\ pending_updates = 0
    /\ ticks = 0
    /\ ops = 0
    /\ logged_in = FALSE
    /\ store = "valid"
    /\ web_thread = Idle
    /\ chat_history = << >>
    /\ tasks = << >>

NextClock ==
    \/ get_countdown_api
    \/ \E user_id \in Users : api_add_user(user_id, Names[user_id])
    \/ \E user \in Users, outcome \in Outcomes : add_user(guilds[1], user, outcome)
    \/ \E d \in SessionDates : RoundTrip(d)

SpecClock == InitClock /\ [][NextClock]_vars

-----------------------------------------------------------------------------------------------------------------------------------------------------
(* advance_schedule_if_needed one loop iteration at a time.  The handler   *)
(* has no await inside its loop, so nothing else runs between iterations   *)
(* and `schedule` stands for its local list until the loop is left.        *)

\* labels a stored entry may carry: unparseable, two weeks back, one week back,
\* the anchor session, the week after
LoopLabels ==
    { BadLabel } \cup
    { format_date(get_date_for_week(0) + k * Week) : k \in -2 .. 1 }

LoopRotations ==
    UNION { [1 .. n -> LoopLabels] : n \in 0 .. MaxLen }

LoopEntry(i, label) ==
    LET u == ((i - 1) % Cardinality(Users)) + 1 IN Entry(u, Names[u], label)

\* clock readings: a second before the anchor session, the session instant
\* itself, half an hour past it
LoopClocks ==
    { Anchor - 1, Anchor, Anchor + 1800 }

InitAdvance ==
    /\ now \in LoopClocks
    /\ \E labels \in LoopRotations :
          schedule = [i \in 1 .. Len(labels) |-> LoopEntry(i, labels[i])]
    /\ last_reminder_date = None
    /\ last_6h_reminder_time = None
    /\ dm_log = << >>
    /\ outbox = << >>
    /\ active_messages \in InitActive
    /\ guilds = << Guild(ALLOWED_GUILD_ID, Users, {REMINDER_CHANNEL_ID}) >>
    /\ display_name = Names
    /\ pc = "advance"
    /\ last = NoHandler
    /\ pending_updates = 0
    /\ ticks = 0
    /\ ops = 0
    /\ logged_in = FALSE
    /\ store = "valid"
    /\ web_thread = Idle
    /\ chat_history = << >>
    /\ tasks = << >>

\* load_schedule, "if not schedule: return", changed = False, now = ...
advance_enter ==
    /\ pc = "advance"
    /\ store = "valid"
    /\ pc' = IF schedule = << >> THEN "advance_done" ELSE "advance_loop"
    /\ last' = Handled("advance", 0, "unchanged", schedule, now, None)
    /\ UNCHANGED << now, schedule, last_reminder_date, last_6h_reminder_time, dm_log,
                    outbox, active_messages, guilds, display_name, pending_updates,
                    ticks, ops, logged_in, store, web_thread, chat_history, tasks >>

\* one pass through the body of "while schedule:" that pops and appends
advance_iterate ==
    /\ pc = "advance_loop"
    /\ HeadDue(schedule, now)
    /\ schedule' = RotateHead(schedule, now)
    /\ last' = [last EXCEPT !.result = "changed"]
    /\ UNCHANGED << now, pc, last_reminder_date, last_6h_reminder_time, dm_log,
                    outbox, active_messages, guilds, display_name, pending_updates,
                    ticks, ops, logged_in, store, web_thread, chat_history, tasks >>

\* the loop is left (list empty, break on an unparseable head, break on a head
\* still ahead); "if changed:" save_schedule and update_all_schedule_messages
advance_leave(outcome) ==
    LET upd == update_all_schedule_messages(schedule, active_messages, outcome)
    IN /\ pc = "advance_loop"
       /\ ~HeadDue(schedule, now)
       /\ pc' = "advance_done"
       /\ IF last.result = "changed"
          THEN /\ schedule' = upd.schedule
               /\ active_messages' = upd.active_messages
          ELSE UNCHANGED << schedule, active_messages >>
       /\ UNCHANGED << now, last, last_reminder_date, last_6h_reminder_time, dm_log,
                       outbox, guilds, display_name, pending_updates,
                       ticks, ops, logged_in, store, web_thread, chat_history, tasks >>

NextAdvance ==
    \/ advance_enter
    \/ advance_iterate
    \/ \E outcome \in Outcomes : advance_leave(outcome)

\* the handler is straight-line code: its next statement is always executed
AdvanceFairness ==
    /\ WF_vars(advance_enter)
    /\ WF_vars(advance_iterate)
    /\ WF_vars(\E outcome \in Outcomes : advance_leave(outcome))

SpecAdvance == InitAdvance /\ [][NextAdvance]_vars /\ AdvanceFairness

-----------------------------------------------------------------------------
(* The reminder loop around the edges of the two windows.                  *)

\* a minute before each edge of (23h, 25h) and of (5.5h, 6.5h)
WindowStarts ==
    { Anchor - 25 * 3600 - 60, Anchor - 23 * 3600 - 60,
      Anchor - 23400 - 60, Anchor - 19800 - 60 }

InitWindows ==
    /\ now \in WindowStarts
    /\ schedule \in { << Slot(1, 0) >>, << Slot(1, 0), Slot(2, 1) >> }
    /\ last_reminder_date = None
    /\ last_6h_reminder_time = None
    /\ dm_log = << >>
    /\ outbox = << >>
    /\ active_messages \in InitActive
    /\ guilds \in InitGuilds
    /\ display_name = Names
    /\ pc = "sleep"
    /\ last = NoHandler
    /\ pending_updates = 0
    /\ ticks = 0
    /\ ops = 0
    /\ logged_in = FALSE
    /\ store = "valid"
    /\ web_thread = Idle
    /\ chat_history = << >>
    /\ tasks = << >>

NextWindows ==
    \/ \E d \in SleepDeltas : Sleep(d)
    \/ \E outcome \in Outcomes : Advance(outcome)
    \/ \E sent \in Sends : Send24h(sent)
    \/ \E sent \in Sends : Send6h(sent)

SpecWindows == InitWindows /\ [][NextWindows]_vars

-----------------------------------------------------------------------------
(* The reminder loop across a session instant, where the rotation turns.   *)

\* rotations whose head is the anchor session; in the second the next leader's
\* session is the day after, 24 h later
TickSchedules ==
    { << Slot(1, 0) >>,
      << Slot(1, 0), Entry(2, "Ben", format_date(get_date_for_week(0) + Day)) >>,
      << Slot(1, 0), Slot(2, 1) >> }

InitTick ==
    /\ now \in { Anchor - 90, Anchor - 60 }
    /\ schedule \in TickSchedules
    /\ last_reminder_date \in { None, DayOf(Anchor) }
    /\ last_6h_reminder_time = None
    /\ dm_log = << >>
    /\ outbox = << >>
    /\ active_messages \in InitActive
    /\ guilds \in InitGuilds
    /\ display_name = Names
    /\ pc = "sleep"
    /\ last = NoHandler
    /\ pending_updates = 0
    /\ ticks = 0
    /\ ops = 0
    /\ logged_in = FALSE
    /\ store = "valid"
    /\ web_thread = Idle
    /\ chat_history = << >>
    /\ tasks = << >>

NextTick ==
    \/ \E d \in SleepDeltas : Sleep(d)
    \/ \E outcome \in Outcomes : Advance(outcome)
    \/ \E sent \in Sends : Send24h(sent)
    \/ \E sent \in Sends : Send6h(sent)
    \/ \E actor \in Users, g \in ViewGuilds, outcome \in Outcomes : PassWeek(actor, g, outcome)

SpecTick == InitTick /\ [][NextTick]_vars

-----------------------------------------------------------------------------
(* The reminder loop late in the life of a session: the process has been   *)
(* running since before the long-lead window and is found before the       *)
(* short-lead window or just before the session.                           *)

LongLeadSent == [kind |-> "dm", to |-> 1, study |-> Anchor]
ShortLeadSent == [kind |-> "channel", to |-> 1, study |-> Anchor]

\* [now, outbox, dm_log, last_reminder_date, last_6h_reminder_time] as left
\* by the ticks so far: nothing delivered, the long-lead DM delivered 24 h
\* ahead, the DM and the channel ping (6 h ahead) both delivered
SessionProgress ==
    LET dm == log_dm(<< >>, 1, Names[1], "24h_reminder", "sent", Anchor - 24 * 3600)
        ping == log_dm(dm, 1, Names[1], "6h_reminder", "sent", Anchor - 6 * 3600)
        failed == log_dm(<< >>, 1, Names[1], "24h_reminder", "failed", Anchor - 24 * 3600)
    IN { << Anchor - 23400 - 30, << >>, failed, None, None >>,
         << Anchor - 23400 - 30, << LongLeadSent >>, dm, DayOf(Anchor), None >>,
         << Anchor - 90, << >>, failed, None, None >>,
         << Anchor - 90, << LongLeadSent, ShortLeadSent >>, ping, DayOf(Anchor),
            Anchor - 6 * 3600 >> }

InitSession ==
    /\ \E p \in SessionProgress :
          /\ now = p[1]
          /\ outbox = p[2]
          /\ dm_log = p[3]
          /\ last_reminder_date = p[4]
          /\ last_6h_reminder_time = p[5]
    /\ schedule \in { << Slot(1, 0) >>, << Slot(1, 0), Slot(2, 1) >> }
    /\ active_messages \in InitActive
    /\ guilds \in InitGuilds
    /\ display_name = Names
    /\ pc = "sleep"
    /\ last = NoHandler
    /\ pending_updates = 0
    /\ ticks = 0
    /\ ops = 0
    /\ logged_in = FALSE
    /\ store = "valid"
    /\ web_thread = Idle
    /\ chat_history = << >>
    /\ tasks = << >>

SpecSession == InitSession /\ [][NextTick]_vars

-----------------------------------------------------------------------------
(* The reminder loop with the exceptions of its sends made explicit: an    *)
(* exception that leaves send_24h_reminders or send_6h_reminders would     *)
(* leave the "while True" of reminder_loop and end its task.               *)

\* member.send raised in some guild during this long-lead evaluation
SendRaised24h(sent, t) ==
    /\ ~LongGuardHit(last_reminder_date, get_next_study_time(schedule, t))
    /\ InLongWindow(get_next_study_time(schedule, t) - t)
    /\ schedule # << >>
    /\ \E i \in 1 .. Len(guilds) : schedule[1].id \in guilds[i].members /\ ~sent[i]

\* channel.send raised during this short-lead evaluation
SendRaised6h(sent, t) ==
    /\ ~ShortGuardHit(last_6h_reminder_time, t)
    /\ InShortWindow(get_next_study_time(schedule, t) - t)
    /\ schedule # << >>
    /\ \E i \in 1 .. Len(guilds) : /\ guilds[i].id = ALLOWED_GUILD_ID
                                    /\ REMINDER_CHANNEL_ID \in guilds[i].channels
                                    /\ ~sent[i]

\* the send awaited with no handler around it
Escapes_Unhandled(raised) == raised

\* "except Exception" around the awaited send (and the try/except of log_dm
\* inside that handler): the exception of a send never leaves the evaluation
Escapes(raised) == FALSE

\* the task of reminder_loop ended by an exception
Stopped ==
    /\ pc' = "stopped"
    /\ UNCHANGED << now, schedule, last_reminder_date, last_6h_reminder_time, dm_log,
                    outbox, active_messages, guilds, display_name, last,
                    pending_updates, ticks, ops, logged_in, store, web_thread,
                    chat_history, tasks >>

await_send_24h_reminders(sent) ==
    IF Escapes(SendRaised24h(sent, now))
    THEN pc = "send_24h" /\ Stopped
    ELSE Send24h(sent)

await_send_6h_reminders(sent) ==
    IF Escapes(SendRaised6h(sent, now))
    THEN pc = "send_6h" /\ Stopped
    ELSE Send6h(sent)

NextFaults ==
    \/ \E d \in SleepDeltas : Sleep(d)
    \/ \E outcome \in Outcomes : Advance(outcome)
    \/ \E sent \in Sends : await_send_24h_reminders(sent)
    \/ \E sent \in Sends : await_send_6h_reminders(sent)

FaultsFairness ==
    /\ WF_vars(\E d \in SleepDeltas : Sleep(d))
    /\ WF_vars(\E outcome \in Outcomes : Advance(outcome))
    /\ WF_vars(\E sent \in Sends : await_send_24h_reminders(sent))
    /\ WF_vars(\E sent \in Sends : await_send_6h_reminders(sent))

SpecFaults == Init /\ [][NextFaults]_vars /\ FaultsFairness

-----------------------------------------------------------------------------
(* get_next_study_time probed through /api/countdown for rotations with a  *)
(* head ahead, a head at or behind the clock, and a head that does not     *)
(* parse.                                                                  *)

NextStudyRotations ==
    { << >>,
      << Slot(1, 0), Slot(2, 1) >>,
      << Slot(1, 1) >>,
      << Entry(1, Names[1], BadLabel), Slot(2, 1) >> }

InitNextStudy ==
    /\ now \in ClockProbes \cup { Anchor }
    /\ schedule \in NextStudyRotations
    /\ last_reminder_date = None
    /\ last_6h_reminder_time = None
    /\ dm_log = << >>
    /\ outbox = << >>
    /\ active_messages \in InitActive
    /\ guilds = << Guild(ALLOWED_GUILD_ID, Users, {REMINDER_CHANNEL_ID}) >>
    /\ display_name = Names
    /\ pc = "sleep"
    /\ last = NoHandler
    /\ pending_updates = 0
    /\ ticks = 0
    /\ ops = 0
    /\ logged_in = FALSE
    /\ store = "valid"
    /\ web_thread = Idle
    /\ chat_history = << >>
    /\ tasks = << >>

SpecNextStudy == InitNextStudy /\ [][get_countdown_api]_vars

-----------------------------------------------------------------------------
(* /remove and POST /api/remove.  A rotation can hold an id twice: POST    *)
(* /reorder stores the posted list as it comes.                            *)

RemoveRotations ==
    { << >>,
      << Slot(1, 0), Slot(2, 1) >>,
      << Entry(2, "Benny", format_date(get_date_for_week(0) + Day)), Slot(1, 2) >>,
      << Slot(1, 0), Entry(2, "Benny", format_date(get_date_for_week(1))), Slot(1, 2) >> }

InitRemove ==
    /\ now \in StartTimes
    /\ schedule \in RemoveRotations
    /\ last_reminder_date = None
    /\ last_6h_reminder_time = None
    /\ dm_log = << >>
    /\ outbox = << >>
    /\ active_messages \in InitActive
    /\ guilds \in InitGuilds
    /\ display_name = Names
    /\ pc = "sleep"
    /\ last = NoHandler
    /\ pending_updates = 0
    /\ ticks = 0
    /\ ops = 0
    /\ logged_in = FALSE
    /\ store = "valid"
    /\ web_thread = Idle
    /\ chat_history = << >>
    /\ tasks = << >>

NextRemove ==
    \/ \E i \in 1 .. Len(guilds), user \in Users, outcome \in Outcomes :
           remove_user(guilds[i], user, outcome)
    \/ \E user_id \in Users : api_remove_user(user_id)
    \/ \E outcome \in Outcomes : RunQueuedUpdate(outcome)

SpecRemove == InitRemove /\ [][NextRemove]_vars

-----------------------------------------------------------------------------
(* refresh_member_names on its own, as format_schedule awaits it: cached   *)
(* names that are current, stale, and of members who left the guild.       *)

\* value is the number of save_schedule calls made
await_refresh_member_names(guild) ==
    /\ ops < MaxOps
    /\ ops' = ops + 1
    /\ store = "valid"
    /\ schedule' = refresh_member_names(guild, schedule)
    /\ last' = Handled("refresh", guild.id,
                       IF NamesUpdated(guild, schedule) THEN "saved" ELSE "",
                       schedule, now,
                       IF NamesUpdated(guild, schedule) THEN 1 ELSE 0)
    /\ UNCHANGED << now, last_reminder_date, last_6h_reminder_time, dm_log, outbox,
                    active_messages, guilds, display_name, pc, pending_updates, ticks,
                    logged_in, store, web_thread, chat_history, tasks >>

NameRotations ==
    { << >> } \cup
    { << Entry(2, n2, format_date(get_date_for_week(0))),
         Entry(3, n3, format_date(get_date_for_week(1))),
         Entry(1, n1, format_date(get_date_for_week(3))) >> :
        n1 \in {"Ann"}, n2 \in {"Ben", "Benny"}, n3 \in {"Cy", "Cyrus"} }

InitNames ==
    /\ now \in StartTimes
    /\ schedule \in NameRotations
    /\ last_reminder_date = None
    /\ last_6h_reminder_time = None
    /\ dm_log = << >>
    /\ outbox = << >>
    /\ active_messages \in InitActive
    /\ guilds \in InitGuilds
    /\ display_name = Names
    /\ pc = "sleep"
    /\ last = NoHandler
    /\ pending_updates = 0
    /\ ticks = 0
    /\ ops = 0
    /\ logged_in = FALSE
    /\ store = "valid"
    /\ web_thread = Idle
    /\ chat_history = << >>
    /\ tasks = << >>

NextNames ==
    \E guild \in { guilds[i] : i \in 1 .. Len(guilds) } \cup { NoGuild } :
        await_refresh_member_names(guild)

SpecNames == InitNames /\ [][NextNames]_vars

-----------------------------------------------------------------------------
(* The messaging console alone.  The chat history found at start is empty, *)
(* or holds a message the admin sent two days ago, alone or after a DM of  *)
(* the member; the member's DM channel may hold messages written when the  *)
(* bot was not connected, which on_message never saw.                      *)

StoredHistories ==
    { << >>,
      << ChatEntry(FromAdmin, Anchor - 2 * Day) >>,
      << ChatEntry(FromUser(1), 6), ChatEntry(FromAdmin, Anchor - 2 * Day) >> }

InitHistory ==
    /\ now \in StartTimes
    /\ chat_history \in StoredHistories
    /\ tasks = << >>
    /\ schedule = << Slot(1, 0) >>
    /\ last_reminder_date = None
    /\ last_6h_reminder_time = None
    /\ dm_log = << >>
    /\ outbox = << >>
    /\ active_messages \in InitActive
    /\ guilds \in InitGuilds
    /\ display_name = Names
    /\ pc = "sleep"
    /\ last = NoHandler
    /\ pending_updates = 0
    /\ ticks = 0
    /\ ops = 0
    /\ logged_in \in BOOLEAN
    /\ store = "valid"
    /\ web_thread = Idle

NextHistory ==
    \/ \E user_id \in Correspondents, delivered \in BOOLEAN :
           send_chat_message(user_id, delivered)
    \/ add_bot_message
    \/ \E author \in Correspondents : on_message(author)
    \/ \E user_id \in Correspondents, fetched \in DiscordHistories :
           load_dm_history(user_id, fetched)

SpecHistory == InitHistory /\ [][NextHistory]_vars

-----------------------------------------------------------------------------
(* The tracked schedule messages: /schedule adds a handle, every           *)
(* update_all_schedule_messages() prunes the ones it cannot reach.          *)

\* handles found in active_messages.json: in the allowed guild's channel, in a
\* channel that no longer exists, in a second guild the bot may have left
ActiveLists ==
    { << >>,
      << Handle(ALLOWED_GUILD_ID, REMINDER_CHANNEL_ID, 1) >>,
      << Handle(ALLOWED_GUILD_ID, REMINDER_CHANNEL_ID, 1), Handle(2, 2, 2) >>,
      << Handle(ALLOWED_GUILD_ID, 9, 1), Handle(ALLOWED_GUILD_ID, REMINDER_CHANNEL_ID, 2),
         Handle(2, 2, 3) >> }

\* /schedule in a channel of the guild; message_id is the id of the response
show_schedule(guild, channel_id, message_id) ==
    LET msg_info == Handle(guild.id, channel_id, message_id)
        others == SelectSeq(active_messages, LAMBDA m : m.message_id # message_id)
    IN /\ ops < MaxOps
       /\ ops' = ops + 1
       /\ store = "valid"
       /\ channel_id \in guild.channels
       /\ IF guild.id # ALLOWED_GUILD_ID
          THEN /\ UNCHANGED << schedule, active_messages >>
               /\ last' = Handled("schedule", message_id, "wrong_guild", active_messages,
                                  now, active_messages)
          ELSE /\ schedule' = format_schedule(guild, schedule)
               /\ active_messages' = Append(others, msg_info)
               /\ last' = Handled("schedule", message_id, "ok", active_messages, now,
                                  save_active_messages(Append(others, msg_info)))
       /\ UNCHANGED << now, last_reminder_date, last_6h_reminder_time, dm_log, outbox,
                       guilds, display_name, pc, pending_updates, ticks,
                       logged_in, store, web_thread, chat_history, tasks >>

\* update_all_schedule_messages() awaited by one of its callers; last keeps
\* the list it started from, the outcome of each fetch/edit and the list saved
call_update_all_schedule_messages(outcome) ==
    LET upd == update_all_schedule_messages(schedule, active_messages, outcome)
    IN /\ ops < MaxOps
       /\ ops' = ops + 1
       /\ store = "valid"
       /\ schedule' = upd.schedule
       /\ active_messages' = upd.active_messages
       /\ last' = Handled("update_all_messages", outcome, "ok", active_messages, now,
                          upd.saved)
       /\ UNCHANGED << now, last_reminder_date, last_6h_reminder_time, dm_log, outbox,
                       guilds, display_name, pc, pending_updates, ticks,
                       logged_in, store, web_thread, chat_history, tasks >>

InitDisplay ==
    /\ now \in StartTimes
    /\ schedule \in { << >>, << Slot(1, 0), Slot(2, 1) >> }
    /\ active_messages \in ActiveLists
    /\ last_reminder_date = None
    /\ last_6h_reminder_time = None
    /\ dm_log = << >>
    /\ outbox = << >>
    /\ guilds \in InitGuilds
    /\ display_name = Names
    /\ pc = "sleep"
    /\ last = NoHandler
    /\ pending_updates = 0
    /\ ticks = 0
    /\ ops = 0
    /\ logged_in = FALSE
    /\ store = "valid"
    /\ web_thread = Idle
    /\ chat_history = << >>
    /\ tasks = << >>

NextDisplay ==
    \/ \E i \in 1 .. Len(guilds), channel_id \in {REMINDER_CHANNEL_ID, 2},
           message_id \in 1 .. MaxLen + 1 :
           show_schedule(guilds[i], channel_id, message_id)
    \/ \E outcome \in Outcomes : call_update_all_schedule_messages(outcome)

SpecDisplay == InitDisplay /\ [][NextDisplay]_vars

-----------------------------------------------------------------------------
(* Flask handlers that hand a coroutine to the event loop and wait for its *)
(* future: the fetch-and-send path of /api/send-chat-message and           *)
(* /api/load-dm-history.  The loop may run the coroutine to its end, or    *)
(* not get to it; the web thread's clock runs in seconds.                  *)

\* a user who is in no guild of the bot
Strangers == {4}

\* future.result() without a timeout
DispatchTimeout_None(op) == None

\* the timeout given to future.result
DispatchTimeout(op) ==
    IF op = "send_chat" THEN SEND_DM_TIMEOUT ELSE LOAD_HISTORY_TIMEOUT

\* a request waiting in future.result: seconds waited and the future's state
\* ("pending", or the value the coroutine returned)
Dispatched(op, arg, waited, future) ==
    [op |-> op, arg |-> arg, loaded |-> << >>, waited |-> waited, future |-> future]

\* POST /api/send-chat-message; cached tells whether bot.get_user finds the user
send_chat_message_request(user_id, cached) ==
    LET in_guild == \E i \in 1 .. Len(guilds) : user_id \in guilds[i].members
    IN /\ web_thread = Idle
       /\ ops < MaxOps
       /\ IF ~logged_in
          THEN /\ ops' = ops + 1
               /\ last' = Handled("send_chat", user_id, "not_authenticated", schedule, now, 0)
               /\ UNCHANGED << chat_history, outbox, web_thread >>
          ELSE /\ chat_history' = save_chat_message(chat_history, FromAdmin, now)
               /\ IF in_guild \/ cached
                  THEN /\ outbox' = Append(outbox, [kind |-> "chat", to |-> user_id,
                                                    study |-> None])
                       /\ ops' = ops + 1
                       /\ last' = Handled("send_chat", user_id, "success", schedule, now, 0)
                       /\ UNCHANGED web_thread
                  ELSE /\ web_thread' = Dispatched("send_chat", user_id, 0, "pending")
                       /\ UNCHANGED << outbox, ops, last >>
       /\ UNCHANGED << now, schedule, last_reminder_date, last_6h_reminder_time, dm_log,
                       active_messages, guilds, display_name, pc, pending_updates, ticks,
                       logged_in, store, tasks >>

\* POST /api/load-dm-history/<user_id>
load_dm_history_request(user_id) ==
    /\ web_thread = Idle
    /\ ops < MaxOps
    /\ IF ~logged_in
       THEN /\ ops' = ops + 1
            /\ last' = Handled("load_dm_history", user_id, "not_authenticated",
                               schedule, now, 0)
            /\ UNCHANGED web_thread
       ELSE /\ web_thread' = Dispatched("load_dm_history", user_id, 0, "pending")
            /\ UNCHANGED << ops, last >>
    /\ UNCHANGED << now, schedule, last_reminder_date, last_6h_reminder_time, dm_log,
                    outbox, active_messages, guilds, display_name, pc, pending_updates,
                    ticks, logged_in, store, chat_history, tasks >>

\* the event loop runs the dispatched coroutine to its end: fetch_and_send or
\* fetch_dm_history_from_discord returns True, or False after an exception
coroutine_done(result, fetched) ==
    /\ web_thread # Idle
    /\ web_thread.future = "pending"
    /\ web_thread' = [web_thread EXCEPT !.future = IF result THEN "true" ELSE "false"]
    /\ IF web_thread.op = "send_chat"
       THEN /\ outbox' = IF result
                         THEN Append(outbox, [kind |-> "chat", to |-> web_thread.arg,
                                              study |-> None])
                         ELSE outbox
            /\ UNCHANGED chat_history
       ELSE /\ chat_history' = IF result
                               THEN fetch_dm_history_from_discord(chat_history,
                                                                  web_thread.arg, fetched)
                               ELSE chat_history
            /\ UNCHANGED outbox
    /\ UNCHANGED << now, schedule, last_reminder_date, last_6h_reminder_time, dm_log,
                    active_messages, guilds, display_name, pc, pending_updates, ticks,
                    logged_in, store, last, ops, tasks >>

\* a second passes in future.result(timeout=...)
wait_one_second ==
    /\ web_thread # Idle
    /\ web_thread.future = "pending"
    /\ web_thread.waited < DispatchTimeout(web_thread.op)
    /\ web_thread' = [web_thread EXCEPT !.waited = @ + 1]
    /\ now' = now + 1
    /\ UNCHANGED << schedule, last_reminder_date, last_6h_reminder_time, dm_log, outbox,
                    active_messages, guilds, display_name, pc, pending_updates, ticks,
                    logged_in, store, last, ops, chat_history, tasks >>

\* future.result returns the coroutine's value, or raises TimeoutError, which
\* "except Exception" turns into a response with success false
future_result ==
    /\ web_thread # Idle
    /\ \/ web_thread.future # "pending"
       \/ web_thread.waited = DispatchTimeout(web_thread.op)
    /\ web_thread' = Idle
    /\ ops' = ops + 1
    /\ last' = Handled(web_thread.op, web_thread.arg,
                       IF web_thread.future = "true" THEN "success" ELSE "failure",
                       schedule, now, web_thread.waited)
    /\ UNCHANGED << now, schedule, last_reminder_date, last_6h_reminder_time, dm_log,
                    outbox, active_messages, guilds, display_name, pc, pending_updates,
                    ticks, logged_in, store, chat_history, tasks >>

InitDispatch ==
    /\ now \in { Anchor - 90, Anchor + 1800 - 60 }
    /\ chat_history \in StoredHistories
    /\ tasks = << >>
    /\ schedule = << Slot(1, 0) >>
    /\ last_reminder_date = None
    /\ last_6h_reminder_time = None
    /\ dm_log = << >>
    /\ outbox = << >>
    /\ active_messages \in InitActive
    /\ guilds \in InitGuilds
    /\ display_name = Names
    /\ pc = "sleep"
    /\ last = NoHandler
    /\ pending_updates = 0
    /\ ticks = 0
    /\ ops = 0
    /\ logged_in \in BOOLEAN
    /\ store = "valid"
    /\ web_thread = Idle

NextDispatch ==
    \/ \E user_id \in Correspondents \cup Strangers, cached \in BOOLEAN :
           send_chat_message_request(user_id, cached)
    \/ \E user_id \in Correspondents \cup Strangers : load_dm_history_request(user_id)
    \/ \E result \in BOOLEAN, fetched \in DiscordHistories : coroutine_done(result, fetched)
    \/ wait_one_second
    \/ future_result

\* time passes for the waiting web thread, and a wait that can end does; the
\* event loop owes the coroutine nothing
DispatchFairness ==
    /\ WF_vars(wait_one_second)
    /\ WF_vars(future_result)

SpecDispatch == InitDispatch /\ [][NextDispatch]_vars /\ DispatchFairness

-----------------------------------------------------------------------------
(* The reminder loop and the Pass button on rotations that hold the anchor *)
(* session twice (POST /api/update-date stores any label) or one member    *)
(* twice (POST /api/reorder stores any list): an advance run at the        *)
(* session instant then goes round its loop more than once.                *)

PermuteRotations ==
    { << Slot(1, 0), Slot(2, 1) >>,
      << Slot(1, 0), Entry(2, "Ben", format_date(get_date_for_week(0))), Slot(3, 1) >>,
      << Slot(1, 0), Entry(1, "Ann", format_date(get_date_for_week(0))), Slot(2, 1) >> }

InitPermute ==
    /\ now \in { Anchor - 90, Anchor - 60 }
    /\ schedule \in PermuteRotations
    /\ last_reminder_date = None
    /\ last_6h_reminder_time = None
    /\ dm_log = << >>
    /\ outbox = << >>
    /\ active_messages \in InitActive
    /\ guilds \in InitGuilds
    /\ display_name = Names
    /\ pc = "sleep"
    /\ last = NoHandler
    /\ pending_updates = 0
    /\ ticks = 0
    /\ ops = 0
    /\ logged_in = FALSE
    /\ store = "valid"
    /\ web_thread = Idle
    /\ chat_history = << >>
    /\ tasks = << >>

SpecPermute == InitPermute /\ [][NextTick]_vars

-----------------------------------------------------------------------------
(* The process is stopped and started again.  The module is executed anew: *)
(* both reminder guards are None again (lines 591-592), on_ready creates a *)
(* new reminder_loop that begins with its sleep, and what the event loop   *)
(* and the web thread had in flight is gone.  The files (schedule.json,    *)
(* dm_log.json, chat_history.json, the tracked messages, the filesystem    *)
(* sessions of Flask) and the messages already delivered stay.  The        *)
(* process can be stopped at any await of the tick.                        *)

\* a restart with the guards kept, as if they were stored in a file
restart_KeepGuards ==
    /\ ops < MaxOps
    /\ ops' = ops + 1
    /\ pc' = "sleep"
    /\ pending_updates' = 0
    /\ web_thread' = Idle
    /\ last' = Handled("restart", 0, "", schedule, now, None)
    /\ tasks' = << >>
    /\ UNCHANGED << now, schedule, last_reminder_date, last_6h_reminder_time, dm_log,
                    outbox, active_messages, guilds, display_name, ticks, logged_in,
                    store, chat_history >>

restart ==
    /\ ops < MaxOps
    /\ ops' = ops + 1
    /\ last_reminder_date' = None
    /\ last_6h_reminder_time' = None
    /\ pc' = "sleep"
    /\ pending_updates' = 0
    /\ web_thread' = Idle
    /\ last' = Handled("restart", 0, "", schedule, now, None)
    /\ tasks' = << >>
    /\ UNCHANGED << now, schedule, dm_log, outbox, active_messages, guilds,
                    display_name, ticks, logged_in, store, chat_history >>

\* the process is started shortly before the long-lead window of the anchor
\* session opens, or shortly before its short-lead window opens
RestartStarts == { Anchor - 25 * 3600 - 60, Anchor - 23400 - 30 }

InitRestart ==
    /\ now \in RestartStarts
    /\ schedule \in { << Slot(1, 0) >>, << Slot(1, 0), Slot(2, 1) >> }
    /\ last_reminder_date = None
    /\ last_6h_reminder_time = None
    /\ dm_log = << >>
    /\ outbox = << >>
    /\ active_messages \in InitActive
    /\ guilds = << Guild(ALLOWED_GUILD_ID, Users, {REMINDER_CHANNEL_ID}) >>
    /\ display_name = Names
    /\ pc = "sleep"
    /\ last = NoHandler
    /\ pending_updates = 0
    /\ ticks = 0
    /\ ops = 0
    /\ logged_in = FALSE
    /\ store = "valid"
    /\ web_thread = Idle
    /\ chat_history = << >>
    /\ tasks = << >>

NextRestart ==
    \/ \E d \in SleepDeltas : Sleep(d)
    \/ \E outcome \in Outcomes : Advance(outcome)
    \/ \E sent \in Sends : Send24h(sent)
    \/ \E sent \in Sends : Send6h(sent)
    \/ restart

SpecRestart == InitRestart /\ [][NextRestart]_vars

-----------------------------------------------------------------------------
(* The event loop, one step per synchronous stretch of a coroutine.  The   *)
(* handlers that write the rotation (advance_schedule_if_needed, the Pass  *)
(* button, /add, /remove, on_member_update, and the name refresh of        *)
(* format_schedule) are coroutines of the one event loop: a coroutine runs *)
(* until it reaches an await, and only then does the loop run another.     *)
(* Each handler is cut here where its code has its load_schedule, its      *)
(* save_schedule and the awaits that follow the save:                      *)
(*   load: the event arrives and the handler runs to its load_schedule;    *)
(*   save: it computes the new list from what it loaded and saves it;      *)
(*   await: it is suspended in `await format_schedule(...)`,               *)
(*     `await interaction.response...` or `await channel.fetch_message`;   *)
(*   resume: it renders, which loads the rotation anew (lines 368, 394).   *)

MaxTasks == 2

ChatOps == { "advance", "pass", "add", "remove", "rename", "render" }

Coroutine(op, arg, at, loaded) == [op |-> op, arg |-> arg, at |-> at, loaded |-> loaded]

\* the name a member changes to
Renamed == [u \in Users |-> IF u = 1 THEN "Anna" ELSE IF u = 2 THEN "Benny" ELSE "Cyrus"]

\* an event loop that could switch inside the name refresh, as it would if
\* refresh_member_names awaited guild.fetch_member between its load and its save
Suspended_InRefresh(c) == c.at = "await" \/ (c.op = "render" /\ c.at = "loaded")

\* the coroutine is at an await, so the event loop may run another one
Suspended(c) == c.at = "await"

\* no coroutine is in the middle of a synchronous stretch
LoopFree == \A i \in 1 .. Len(tasks) : Suspended(tasks[i])

\* whether the handler reaches its save_schedule with the list it loaded
Saves(c, t) ==
    CASE c.op = "advance" -> advance_schedule_if_needed(c.loaded, t).changed
      [] c.op = "pass" -> PassRejection(c.loaded, c.arg) = ""
      [] c.op = "add" -> TRUE
      [] c.op = "remove" -> find_user_index(c.loaded, c.arg) # 0
      [] c.op = "rename" -> find_user_index(c.loaded, c.arg) # 0
      [] c.op = "render" -> NamesUpdated(get_guild(c.arg), c.loaded)

\* the list the handler passes to save_schedule, computed from the list it loaded
Saved(c, t) ==
    CASE c.op = "advance" -> advance_schedule_if_needed(c.loaded, t).schedule
      [] c.op = "pass" -> PassRotate(c.loaded, display_name[c.arg])
      [] c.op = "add" ->
            Append(c.loaded, Entry(c.arg, display_name[c.arg],
                                   format_date(get_next_schedule_date(c.loaded, t))))
      [] c.op = "remove" -> Pop(c.loaded, find_user_index(c.loaded, c.arg))
      [] c.op = "rename" ->
            [c.loaded EXCEPT ![find_user_index(c.loaded, c.arg)].name = display_name[c.arg]]
      [] c.op = "render" -> format_schedule(get_guild(c.arg), c.loaded)

\* whether the handler goes on to render after its save: the reply of /add,
\* /remove and Pass, and update_all_schedule_messages for a tracked message
Renders(c) ==
    \/ c.op \in { "pass", "add", "remove" }
    \/ c.op \in { "advance", "rename" } /\ active_messages # << >>

\* an event reaches the loop and its handler runs up to its load_schedule
chat_load(op, arg) ==
    /\ LoopFree
    /\ ops < MaxTasks
    /\ ops' = ops + 1
    /\ store = "valid"
    /\ op = "add" => Len(schedule) < MaxLen
    /\ op = "advance" => pc = "advance" /\ schedule # << >>
    /\ pc' = IF op = "advance" THEN "send_24h" ELSE pc
    /\ op = "rename" => display_name[arg] # Renamed[arg]
    /\ display_name' = IF op = "rename" THEN [display_name EXCEPT ![arg] = Renamed[arg]]
                       ELSE display_name
    /\ tasks' = Append(tasks, Coroutine(op, arg, "loaded", schedule))
    /\ UNCHANGED << now, schedule, last_reminder_date, last_6h_reminder_time, dm_log,
                    outbox, active_messages, guilds, last, pending_updates, ticks,
                    logged_in, store, web_thread, chat_history >>

\* the coroutine runs from its load_schedule to its save_schedule, or to its
\* return when it has nothing to save
chat_save(i) ==
    LET c == tasks[i]
    IN /\ c.at = "loaded"
       /\ \A j \in 1 .. Len(tasks) : j # i => Suspended(tasks[j])
       /\ schedule' = IF Saves(c, now) THEN Saved(c, now) ELSE schedule
       /\ last' = Handled(c.op, c.arg, IF Saves(c, now) THEN "saved" ELSE "", c.loaded,
                          now, None)
       /\ tasks' = IF Saves(c, now) /\ c.op # "render" /\ Renders(c)
                   THEN [tasks EXCEPT ![i].at = "await"]
                   ELSE Pop(tasks, i)
       /\ UNCHANGED << now, last_reminder_date, last_6h_reminder_time, dm_log, outbox,
                       active_messages, guilds, display_name, pc, pending_updates, ticks,
                       ops, logged_in, store, web_thread, chat_history >>

\* the awaited call returns and the coroutine goes on to format_schedule,
\* which loads the rotation
chat_resume(i) ==
    /\ LoopFree
    /\ tasks[i].at = "await"
    /\ tasks' = [tasks EXCEPT ![i] = Coroutine("render", ALLOWED_GUILD_ID, "loaded", schedule)]
    /\ UNCHANGED << now, schedule, last_reminder_date, last_6h_reminder_time, dm_log,
                    outbox, active_messages, guilds, display_name, pc, last,
                    pending_updates, ticks, ops, logged_in, store, web_thread,
                    chat_history >>

\* rotations with a current and with a stale cached name
ChatRotations ==
    { << Slot(1, 0), Slot(2, 1) >>,
      << Slot(1, 0), Entry(2, "Benjamin", format_date(get_date_for_week(1))) >> }

InitChat ==
    /\ now \in { Anchor - 60, Anchor + 1800 - 60 }
    /\ schedule \in ChatRotations
    /\ last_reminder_date = None
    /\ last_6h_reminder_time = None
    /\ dm_log = << >>
    /\ outbox = << >>
    /\ active_messages \in InitActive
    /\ guilds = << Guild(ALLOWED_GUILD_ID, Users, {REMINDER_CHANNEL_ID}) >>
    /\ display_name = Names
    /\ pc = "sleep"
    /\ last = NoHandler
    /\ pending_updates = 0
    /\ ticks = 0
    /\ ops = 0
    /\ logged_in = FALSE
    /\ store = "valid"
    /\ web_thread = Idle
    /\ chat_history = << >>
    /\ tasks = << >>

NextChat ==
    \/ LoopFree /\ \E d \in SleepDeltas : Sleep(d)
    \/ LoopFree /\ \E sent \in Sends : Send24h(sent)
    \/ LoopFree /\ \E sent \in Sends : Send6h(sent)
    \/ chat_load("advance", 0)
    \/ \E op \in { "pass", "add", "remove", "rename" }, u \in Users : chat_load(op, u)
    \/ \E i \in 1 .. Len(tasks) : chat_save(i)
    \/ \E i \in 1 .. Len(tasks) : chat_resume(i)

SpecChat == InitChat /\ [][NextChat]_vars

-----
(* Properties.  A label names no year, so "the session instant of an       *)
(* entry" is read as the occurrence of its day/month the rotation is       *)
(* about: the latest one at or before the clock when it lies within the    *)
(* past week (the session has elapsed), the next one otherwise.            *)

SessionSeconds == STUDY_HOUR * 3600 + STUDY_MINUTE * 60

\* the latest occurrence of the label at session time that is <= t
LastOccurrence(date_str, t) ==
    LET y == YearOf(t)
        d == date_str.day
        m == date_str.month
    IN IF ValidDate(y, m, d) /\ StudyInstant(y, m, d) <= t THEN StudyInstant(y, m, d)
       ELSE IF ValidDate(y - 1, m, d) THEN StudyInstant(y - 1, m, d)
       ELSE None

\* the session of the label took place at or before t, less than a week ago
Elapsed(date_str, t) ==
    LastOccurrence(date_str, t) # None /\ t - LastOccurrence(date_str, t) < Week

Ids(sched) == [i \in 1 .. Len(sched) |-> sched[i].id]
Dates(sched) == [i \in 1 .. Len(sched) |-> sched[i].date]
RotateLeft(s) == IF s = << >> THEN s ELSE Append(Tail(s), Head(s))
Count(s, P(_)) == Cardinality({i \in 1 .. Len(s) : P(s[i])})

\* C1: advance_schedule_if_needed, run when the head's session instant is <= now
\* and every other entry's is > now, moves the head to the tail once, dates it
\* 7 days after the previous tail (after its own date when alone) and leaves the
\* other entries' order and dates as they were.
C1_AdvanceMovesElapsedHead ==
    LET b == last.before
        n == Len(b)
        tail_instant == IF n = 1 THEN LastOccurrence(b[1].date, last.at)
                        ELSE parse_date_string(b[n].date, last.at)
    IN (/\ last.op = "advance"
        /\ n >= 1
        /\ Elapsed(b[1].date, last.at)
        /\ \A i \in 2 .. n : ~Elapsed(b[i].date, last.at)
                             /\ parse_date_string(b[i].date, last.at) > last.at)
       => /\ Ids(schedule) = RotateLeft(Ids(b))
          /\ \A i \in 1 .. n - 1 : schedule[i].date = b[i + 1].date
          /\ schedule[n].date = format_date(tail_instant + Week)

C3_OneLongLeadPerSession ==
    \A i, j \in 1 .. Len(outbox) :
        (i < j /\ outbox[i].kind = "dm" /\ outbox[j].kind = "dm")
        => outbox[i].study # outbox[j].study

\* C4: within one process run the ticks inside the (5.5h, 6.5h) window of a
\* session produce at most one short-lead channel ping.
C4_OneShortLeadPerSession ==
    \A i, j \in 1 .. Len(outbox) :
        (i < j /\ outbox[i].kind = "channel" /\ outbox[j].kind = "channel")
        => outbox[i].study # outbox[j].study

\* a short-lead evaluation inside the window of a session already pinged sent nothing
C4_Witness ==
    /\ last.op = "send_6h"
    /\ last.result = ""
    /\ InShortWindow(last.value - last.at)
    /\ Count(outbox, LAMBDA msg : msg.kind = "channel" /\ msg.study = last.value) = 1

\* C5: pass is rejected for every actor who is not the current head (absent from
\* the rotation, or present but not head), and a rejected pass leaves the stored
\* rotation unchanged.
C5_PassByNonHeadRejected ==
    (last.op = "pass" /\ (last.before = << >> \/ last.before[1].id # last.arg))
    => /\ last.result = IF last.arg \in get_user_ids(last.before)
                        THEN "not_head" ELSE "not_in_schedule"
       /\ schedule = last.before

\* a member of the rotation who is not its head pressed Pass
C5_Witness ==
    /\ last.op = "pass"
    /\ last.result = "not_head"
    /\ Len(last.before) >= 2
    /\ last.before[2].id = last.arg

\* C6: after a successful pass the rotation is the previous one rotated left by
\* one, and every entry is dated dateForWeek(i) for its new index i.
C6_PassResynchronisesDates ==
    (last.op = "pass" /\ last.result = "ok")
    => /\ Ids(schedule) = RotateLeft(Ids(last.before))
       /\ \A i \in 1 .. Len(schedule) :
              schedule[i].date = format_date(get_date_for_week(i - 1))

\* a pass rewrote the customised date of an entry that did not move
C6_Witness ==
    /\ last.op = "pass"
    /\ last.result = "ok"
    /\ Len(last.before) >= 2
    /\ schedule[1].date # last.before[2].date

\* C7: add(id), by /add or by /api/add, is rejected with no state change iff id
\* is already in the rotation; otherwise the rotation grows by one, the new entry
\* is the tail and is dated 7 days after the previous tail.
C7_AddRejectedIffPresent ==
    LET b == last.before
        present == last.arg \in get_user_ids(b)
        tail_instant == parse_date_string(b[Len(b)].date, last.at)
    IN (last.op \in {"add", "api_add"} /\ last.result # "wrong_guild")
       => /\ (last.result # "ok") <=> present
          /\ last.result # "ok" => schedule = b
          /\ last.result = "ok" =>
                /\ Ids(schedule) = Append(Ids(b), last.arg)
                /\ (b # << >> /\ tail_instant # None)
                   => schedule[Len(schedule)].date = format_date(tail_instant + Week)

\* the Saturday session the claim calls eligible at clock t: today's when t is a
\* Saturday before the session time, the first Saturday after today otherwise
EligibleSaturday(s, t) ==
    /\ Weekday(s) = 5
    /\ s % Day = SessionSeconds
    /\ IF Weekday(t) = 5 /\ t % Day < SessionSeconds
       THEN DayOf(s) = DayOf(t)
       ELSE DayOf(s) > DayOf(t) /\ DayOf(s) - DayOf(t) <= 7

\* C8: add(X) on an empty rotation yields [X], dated the next eligible Saturday
\* at session time, the instant nextSessionInstant gives for an empty rotation.
C8_AddToEmptyRotation ==
    (last.op \in {"add", "api_add"} /\ last.result = "ok" /\ last.before = << >>)
    => /\ Ids(schedule) = << last.arg >>
       /\ \E k \in 0 .. 7 :
              LET s == (DayOf(last.at) + k) * Day + SessionSeconds
              IN /\ EligibleSaturday(s, last.at)
                 /\ schedule[1].date = format_date(s)
                 /\ parse_date_string(schedule[1].date, last.at) = s
                 /\ get_next_study_time(<< >>, last.at) = s

\* a member was added to the empty rotation on a Saturday after the session time
C8_Witness ==
    /\ last.op \in {"add", "api_add"}
    /\ last.result = "ok"
    /\ last.before = << >>
    /\ Weekday(last.at) = 5
    /\ last.at % Day >= SessionSeconds
    /\ Len(schedule) = 1

\* C9: with an empty rotation the next study time is a Saturday at the session
\* hour and minute, strictly after now and at most 7 days after it; on a Saturday
\* at or after the session time it is the Saturday 7 days later.
C9_NextStudyOfEmptyRotation ==
    (last.op = "countdown" /\ last.before = << >>)
    => LET next_study == last.at + last.value
       IN /\ last.value > 0
          /\ last.value <= Week
          /\ Weekday(next_study) = 5
          /\ HourOf(next_study) = STUDY_HOUR
          /\ MinuteOf(next_study) = STUDY_MINUTE
          /\ next_study % 60 = 0
          /\ (Weekday(last.at) = 5 /\ last.at % Day >= SessionSeconds)
             => DayOf(next_study) = DayOf(last.at) + 7

\* the countdown was asked on Saturday 3 August 2024 at 21:15: the next study
\* time is Saturday 10 August, 19:30
C9_Witness ==
    /\ last.op = "countdown"
    /\ last.before = << >>
    /\ last.at = At(2024, 8, 3, 21, 15, 0)
    /\ last.at + last.value = At(2024, 8, 10, STUDY_HOUR, STUDY_MINUTE, 0)

\* C10 as stated: parse_date_string(format_date(d)) resolves to an instant with
\* the weekday, hour and minute of d, whatever the year it resolves to.
C10_RoundTripKeepsWeekday ==
    last.op = "round_trip"
    => /\ last.value # None
       /\ Weekday(last.value) = Weekday(last.arg)
       /\ HourOf(last.value) = HourOf(last.arg)
       /\ MinuteOf(last.value) = MinuteOf(last.arg)

\* C10 amended: the round trip keeps the day of the month, the month, the hour
\* and the minute of d, and the weekday when it resolves to the year of d; only a
\* 29 February may fail to resolve.
C10_RoundTripKeepsDayAndMonth ==
    last.op = "round_trip"
    => LET d == last.arg
           r == last.value
       IN IF r = None
          THEN format_date(d).day = 29 /\ format_date(d).month = 2
          ELSE /\ format_date(r).day = format_date(d).day
               /\ format_date(r).month = format_date(d).month
               /\ HourOf(r) = HourOf(d)
               /\ MinuteOf(r) = MinuteOf(d)
               /\ YearOf(r) = YearOf(d) => Weekday(r) = Weekday(d)

\* a date already past was read back a year later, on another weekday
C10_Witness ==
    /\ last.op = "round_trip"
    /\ last.arg < last.at
    /\ last.value # None
    /\ YearOf(last.value) = YearOf(last.arg) + 1
    /\ Weekday(last.value) # Weekday(last.arg)

\* C11: after any sequence of pass, add, remove, update-date and reorder on a
\* rotation that starts in date order, the dates resolved by parse_date_string at
\* the current clock do not decrease from head to tail.
C11_DatesStayOrdered == DateOrdered(schedule, now)

\* C12: a web request made without a logged-in session never changes the
\* rotation: /api/add, /api/remove, /api/reorder and /api/update-date leave the
\* stored rotation as it was unless the session flag is set.
C12_NoMutationWithoutLogin ==
    (last.op \in {"api_add", "api_remove", "reorder", "update_date"} /\ ~logged_in)
    => schedule = last.before

\* C13: when the store file exists but is malformed, load reports a read failure
\* to its caller and leaves the file as it was; only a missing file is
\* initialised to the empty mapping.
C13_MalformedStoreIsReported ==
    [][ /\ (store = "malformed" /\ last'.op = "load")
           => (last'.result = "read_failure" /\ store' = "malformed" /\ schedule' = schedule)
        /\ (store = "missing" /\ last'.op = "load")
           => (store' = "valid" /\ schedule' = << >>) ]_vars

\* C14: rotation mutations are unsynchronised read, mutate, write sequences: a
\* web mutation saves the list it loaded with its own change, whatever the file
\* holds by then, so a chat mutation served in between is overwritten (last write
\* wins) although both requests were answered with success.
C14_WebSaveWritesWhatItLoaded ==
    (last.op \in WebMutations /\ last.result = "ok")
    => /\ last.op = "api_add" =>
              /\ Ids(schedule) = Append(Ids(last.before), last.arg)
              /\ \A i \in 1 .. Len(last.before) : schedule[i] = last.before[i]
       /\ last.op = "api_remove" =>
              schedule = Pop(last.before, find_user_index(last.before, last.arg))

\* the head passed while /api/add was between its load and its save: both were
\* answered with success, and the stored rotation is the one loaded before the
\* pass plus the new member
C14_Witness ==
    /\ last.op = "api_add"
    /\ last.result = "ok"
    /\ last.value = 1
    /\ Len(last.before) >= 2
    /\ Ids(schedule) = Append(Ids(last.before), last.arg)

\* new is old with k entries appended, cut to its most recent cap entries
AppendedAndEvicted(old, new, k, cap) ==
    LET n == IF Len(old) + k > cap THEN cap ELSE Len(old) + k
    IN /\ Len(new) = n
       /\ n >= k
       /\ SubSeq(new, 1, n - k) = SubSeq(old, Len(old) - (n - k) + 1, Len(old))

\* C15: the DM audit log and the chat history hold at most 100 entries after
\* every log_dm, save_chat_message, on_message and load-DM-history, and when an
\* append exceeds 100 the entries dropped are the oldest.
C15_LogsKeepMostRecent ==
    /\ Len(dm_log) <= DM_LOG_CAP
    /\ Len(chat_history) <= CHAT_HISTORY_CAP
    /\ [][ /\ Len(dm_log') <= DM_LOG_CAP
           /\ Len(chat_history') <= CHAT_HISTORY_CAP
           /\ (/\ ops' = ops + 1
               /\ last'.op \in {"send_chat", "add_bot_message", "on_message",
                                "load_dm_history"})
              => AppendedAndEvicted(chat_history, chat_history', last'.value,
                                    CHAT_HISTORY_CAP)
           /\ dm_log' # dm_log
              => /\ \E k \in 1 .. Len(guilds) :
                        AppendedAndEvicted(dm_log, dm_log', k, DM_LOG_CAP)
                 /\ dm_log'[Len(dm_log')].timestamp = now
           /\ (pc \in {"send_24h", "send_6h"} /\ pc' # pc /\ last'.result = "sent")
              => dm_log' # dm_log ]_vars

\* a full page of 50 messages was loaded into a chat history that held 100:
\* the 50 oldest went, the 50 newest stayed in front of the page
C15_Witness ==
    /\ last.op = "load_dm_history"
    /\ last.value = HISTORY_LIMIT
    /\ Len(chat_history) = CHAT_HISTORY_CAP
    /\ chat_history[1].timestamp = HISTORY_LIMIT + 1
    /\ chat_history[CHAT_HISTORY_CAP].timestamp = 1000 + HISTORY_LIMIT

\* C16: advance_schedule_if_needed run while the head's session instant is still
\* in the future leaves the rotation as it was, saves nothing and re-renders
\* nothing; and every run leaves the rotation in such a state, so that a second
\* call at the same clock reading is a no-op.
C16_AdvanceIdempotentWithinTick ==
    [][ (pc = "advance" /\ pc' = "send_24h")
        => /\ (/\ schedule # << >>
               /\ parse_date_string(schedule[1].date, now) # None
               /\ parse_date_string(schedule[1].date, now) > now)
              => /\ schedule' = schedule
                 /\ active_messages' = active_messages
                 /\ last'.result = "unchanged"
           /\ advance_schedule_if_needed(schedule', now') =
                 [schedule |-> schedule', changed |-> FALSE] ]_vars

\* the loop's second or later evaluation found the head's session still ahead
\* and left the stored rotation alone
C16_Witness ==
    /\ last.op = "advance"
    /\ pc = "send_24h"
    /\ ticks >= 2
    /\ last.result = "unchanged"
    /\ last.before # << >>
    /\ parse_date_string(last.before[1].date, last.at) > last.at
    /\ schedule = last.before

\* C17: advance_schedule_if_needed terminates for every rotation: empty, with an
\* unparseable head, with several or all entries dated at or before now; its
\* loop makes finitely many pop/append passes and the handler returns.
C17_AdvanceTerminates ==
    (pc = "advance") ~> (pc = "advance_done")

\* the handler returned after every entry of a full rotation had been popped
\* and re-appended: all its labels were at or before now
C17_Witness ==
    /\ pc = "advance_done"
    /\ last.result = "changed"
    /\ Len(last.before) = MaxLen
    /\ \A i \in 1 .. MaxLen :
          /\ parse_date_string(last.before[i].date, last.at) # None
          /\ parse_date_string(last.before[i].date, last.at) <= last.at
          /\ parse_date_string(schedule[i].date, last.at) > last.at

\* C18: an unparseable head label is recovered with the position-derived date
\* get_date_for_week(0): advance_schedule_if_needed completes normally and, run
\* when the session of that date has been reached, rotates the head to the tail.
C18_UnparseableHeadStillAdvances ==
    (/\ pc = "advance_done"
     /\ last.before # << >>
     /\ parse_date_string(last.before[1].date, last.at) = None
     /\ last.at >= get_date_for_week(0) + SessionSeconds)
    => /\ last.result = "changed"
       /\ schedule[Len(schedule)].id = last.before[1].id

\* C19: the long-lead guard moves only on a confirmed delivery.  An evaluation of
\* send_24h_reminders that delivered nothing (outside the window, or every send
\* failed) leaves last_reminder_date as it was; one that delivered sets it to the
\* session's date; while the guard is not that date, an evaluation inside
\* (23h, 25h) with the leader reachable attempts delivery (again); once the guard
\* is the session's date an evaluation neither sends nor logs.
C19_LongGuardOnDeliveryOnly ==
    [][ (pc = "send_24h" /\ pc' = "send_6h")
        => LET next_study == get_next_study_time(schedule, now)
               reachable == /\ schedule # << >>
                            /\ \E i \in 1 .. Len(guilds) :
                                  schedule[1].id \in guilds[i].members
           IN /\ outbox' = outbox => last_reminder_date' = last_reminder_date
              /\ outbox' # outbox => last_reminder_date' = DayOf(next_study)
              /\ (/\ last_reminder_date # DayOf(next_study)
                  /\ InLongWindow(next_study - now)
                  /\ reachable)
                 => /\ dm_log' # dm_log
                    /\ dm_log'[Len(dm_log')].type = "24h_reminder"
                    /\ dm_log'[Len(dm_log')].timestamp = now
              /\ last_reminder_date = DayOf(next_study)
                 => outbox' = outbox /\ dm_log' = dm_log ]_vars

\* a long-lead message was delivered by a tick that followed one whose send had
\* failed for the same session, and the guard is now that session's date
C19_Witness ==
    /\ last.op = "send_24h"
    /\ last.result = "sent"
    /\ last_reminder_date = DayOf(last.value)
    /\ \E i \in 1 .. Len(dm_log) :
          /\ dm_log[i].type = "24h_reminder"
          /\ dm_log[i].status = "failed"
          /\ dm_log[i].timestamp < last.at
          /\ InLongWindow(last.value - dm_log[i].timestamp)

\* C20: the short-lead guard moves on every attempt.  After an evaluation of
\* send_6h_reminders that attempted the channel send (it logged a 6h_reminder
\* entry at its clock reading, sent or failed) last_6h_reminder_time is that
\* tick's now.
C20_ShortGuardOnEveryAttempt ==
    (/\ last.op = "send_6h"
     /\ dm_log # << >>
     /\ dm_log[Len(dm_log)].type = "6h_reminder"
     /\ dm_log[Len(dm_log)].timestamp = last.at)
    => last_6h_reminder_time = last.at

\* C21: a long-lead DM is sent only by an evaluation with 23h < time_until < 25h
\* and a short-lead ping only by one with 5.5h < time_until < 6.5h, time_until
\* being get_next_study_time() - now; at a bound or outside the window the
\* evaluation sends nothing, logs nothing and leaves both guards as they were.
C21_RemindersOnlyInsideWindows ==
    [][ LET time_until == get_next_study_time(schedule, now) - now
            quiet == /\ outbox' = outbox
                     /\ dm_log' = dm_log
                     /\ last_reminder_date' = last_reminder_date
                     /\ last_6h_reminder_time' = last_6h_reminder_time
        IN /\ (pc = "send_24h" /\ pc' = "send_6h")
              => /\ last_6h_reminder_time' = last_6h_reminder_time
                 /\ (time_until <= 82800 \/ time_until >= 90000) => quiet
           /\ (pc = "send_6h" /\ pc' = "sleep")
              => /\ last_reminder_date' = last_reminder_date
                 /\ (time_until <= 19800 \/ time_until >= 23400) => quiet ]_vars

\* an evaluation exactly 25 h before the session, the leader reachable and no
\* guard set, sent and logged nothing
C21_Witness ==
    /\ last.op = "send_24h"
    /\ last.value - last.at = 25 * 3600
    /\ last.before # << >>
    /\ last_reminder_date = None
    /\ outbox = << >>
    /\ dm_log = << >>

\* entries k+1 .. of seq, the ones an evaluation added to a list of length k
Added(old, new) == SubSeq(new, Len(old) + 1, Len(new))

\* C22: every tick runs advance, then the long-lead evaluation, then the
\* short-lead evaluation; an advance that rotated has stored the new rotation
\* (the departed head at its tail) before the evaluations run, and whatever an
\* evaluation sends or logs is addressed to the head of the stored rotation it
\* reads and is about that head's session time.
C22_EvaluationsReadNewHead ==
    [][ /\ pc' # pc => << pc, pc' >> \in { << "sleep", "advance" >>,
                                           << "advance", "send_24h" >>,
                                           << "send_24h", "send_6h" >>,
                                           << "send_6h", "sleep" >> }
        /\ (pc = "advance" /\ pc' = "send_24h" /\ last'.result = "changed")
           => /\ schedule' # schedule
              /\ schedule'[Len(schedule')].id = schedule[1].id
              /\ ~HeadDue(schedule', now)
        /\ (pc \in {"send_24h", "send_6h"} /\ pc' # pc)
           => /\ \A i \in 1 .. Len(Added(outbox, outbox')) :
                    /\ Added(outbox, outbox')[i].to = schedule[1].id
                    /\ Added(outbox, outbox')[i].study =
                          get_next_study_time(schedule, now)
                    /\ parse_date_string(schedule[1].date, now) > now
                       => Added(outbox, outbox')[i].study =
                            parse_date_string(schedule[1].date, now)
              /\ \A i \in 1 .. Len(Added(dm_log, dm_log')) :
                    Added(dm_log, dm_log')[i].user_id = schedule[1].id ]_vars

\* at the session instant advance moved Ann to the tail, and the long-lead
\* evaluation of the same tick reminded Ben, the new head, of his session 24 h on
C22_Witness ==
    /\ last.op = "send_24h"
    /\ last.result = "sent"
    /\ last.at = Anchor
    /\ ops = 0
    /\ Ids(schedule) = << 2, 1 >>
    /\ outbox[Len(outbox)].to = 2
    /\ outbox[Len(outbox)].study = Anchor + Day

\* C23: the reminder events of a session only move forward.  No long-lead DM
\* follows a short-lead ping for the same session; a reminder is only ever for
\* a session still ahead of the clock, while advance rotates only a head whose
\* session instant has been reached and the clock never runs back, so that no
\* reminder is sent for a session advance has rotated away.
C23_ReminderEventsMonotonic ==
    /\ \A i, j \in 1 .. Len(outbox) :
          (i < j /\ outbox[i].study = outbox[j].study)
          => ~(outbox[i].kind = "channel" /\ outbox[j].kind = "dm")
    /\ [][ /\ now' >= now
           /\ \A i, j \in 1 .. Len(outbox') :
                 (i < j /\ outbox'[i].study = outbox'[j].study)
                 => ~(outbox'[i].kind = "channel" /\ outbox'[j].kind = "dm")
           /\ (pc = "advance" /\ pc' = "send_24h" /\ last'.result = "changed")
              => /\ parse_date_string(schedule[1].date, now) # None
                 /\ parse_date_string(schedule[1].date, now) <= now
                 /\ \A i \in 1 .. Len(outbox) :
                       outbox[i].study <= now
                       \/ outbox[i].study # parse_date_string(schedule[1].date, now)
           /\ (pc \in {"send_24h", "send_6h"} /\ pc' # pc)
              => /\ \A i \in 1 .. Len(Added(outbox, outbox')) :
                       Added(outbox, outbox')[i].study > now
                 /\ (last.op = "advance" /\ last.result = "changed")
                    => \A i \in 1 .. Len(Added(outbox, outbox')) :
                          Added(outbox, outbox')[i].study #
                            parse_date_string(last.before[1].date, last.at) ]_vars

\* the session went Pending, LongLeadSent, ShortLeadSent in that order, the ping
\* by a tick of this run
C23_Witness ==
    /\ last.op = "send_6h"
    /\ last.result = "sent"
    /\ ticks >= 1
    /\ Len(outbox) >= 2
    /\ outbox[1] = LongLeadSent
    /\ outbox[2].kind = "channel"
    /\ outbox[2].study = Anchor
    /\ last.at > Anchor - 23400

C25_NextStudyPrefersFutureHead ==
    last.op = "countdown"
    => LET b == last.before
           head == IF b = << >> THEN None ELSE parse_date_string(b[1].date, last.at)
           next_study == last.at + last.value
       IN /\ last.value > 0
          /\ (head # None /\ head > last.at) => next_study = head
          /\ ~(head # None /\ head > last.at)
             => /\ Weekday(next_study) = 5
                /\ next_study % Day = SessionSeconds
                /\ last.value <= Week
                /\ (Weekday(last.at) = 5 /\ last.at % Day >= SessionSeconds)
                   => DayOf(next_study) = DayOf(last.at) + 7
                /\ (Weekday(last.at) = 5 /\ last.at % Day < SessionSeconds)
                   => DayOf(next_study) = DayOf(last.at)

\* asked on Wednesday 26 November with a head that does not parse: the answer is
\* Saturday 29 November at the session time
C25_Witness ==
    /\ last.op = "countdown"
    /\ last.before # << >>
    /\ last.at = Anchor - 3 * Day
    /\ parse_date_string(last.before[1].date, last.at) = None
    /\ last.value = 3 * Day

\* position of the first entry of s with that id, 0 when there is none
FirstWith(s, id) ==
    IF \E i \in 1 .. Len(s) : s[i].id = id
    THEN CHOOSE i \in 1 .. Len(s) : s[i].id = id /\ \A j \in 1 .. i - 1 : s[j].id # id
    ELSE 0

\* s without its entry at position i
Without(s, i) == SubSeq(s, 1, i - 1) \o SubSeq(s, i + 1, Len(s))

\* C26 as stated: a remove of an id that is absent is rejected with the rotation
\* unchanged; a remove of an id that is present deletes the first entry with
\* that id and leaves every other entry as it was: order, name and date.
C26_RemoveKeepsOtherEntries ==
    (last.op \in {"remove", "api_remove"} /\ last.result # "wrong_guild")
    => LET b == last.before
           i == FirstWith(b, last.arg)
       IN IF i = 0
          THEN last.result = "not_in_schedule" /\ schedule = b
          ELSE last.result = "ok" /\ schedule = Without(b, i)

\* C26: a remove of an id that is absent is rejected with the rotation
\* unchanged; a remove of an id that is present deletes the first entry with
\* that id and leaves every other entry's position, id and date as they were;
\* POST /api/remove leaves the names too, /remove leaves each name as it was or
\* sets it to the member's display name (it renders the rotation).
C26_RemoveKeepsOrderAndDates ==
    (last.op \in {"remove", "api_remove"} /\ last.result # "wrong_guild")
    => LET b == last.before
           i == FirstWith(b, last.arg)
       IN IF i = 0
          THEN last.result = "not_in_schedule" /\ schedule = b
          ELSE /\ last.result = "ok"
               /\ Ids(schedule) = Ids(Without(b, i))
               /\ Dates(schedule) = Dates(Without(b, i))
               /\ \A j \in 1 .. Len(schedule) :
                     schedule[j].name \in { Without(b, i)[j].name,
                                            display_name[schedule[j].id] }
               /\ last.op = "api_remove" => schedule = Without(b, i)

\* Ann, in the rotation twice, was removed: her first entry went, her second
\* stayed behind Benny's, dates as they were
C26_Witness ==
    /\ last.op \in {"remove", "api_remove"}
    /\ last.result = "ok"
    /\ last.arg = 1
    /\ Ids(last.before) = << 1, 2, 1 >>
    /\ Ids(schedule) = << 2, 1 >>
    /\ Dates(schedule) = << last.before[2].date, last.before[3].date >>

\* C27: refresh_member_names changes name fields only: length, order, ids and
\* dates stay; an entry whose member is in the guild carries the member's
\* display name afterwards, an entry whose member is absent keeps its cached
\* name; the store is written at most once, and only when a name differed.
C27_RefreshChangesNamesOnly ==
    last.op = "refresh"
    => LET b == last.before
           guild == get_guild(last.arg)
       IN /\ Len(schedule) = Len(b)
          /\ Ids(schedule) = Ids(b)
          /\ Dates(schedule) = Dates(b)
          /\ \A j \in 1 .. Len(b) :
                schedule[j].name = IF b[j].id \in guild.members
                                   THEN display_name[b[j].id] ELSE b[j].name
          /\ last.value \in {0, 1}
          /\ last.value = 1 <=> schedule # b

\* refreshed in the guild Cy is not a member of: Benny became Ben, Cyrus stayed
\* Cyrus, one write
C27_Witness ==
    /\ last.op = "refresh"
    /\ last.value = 1
    /\ Len(schedule) = 3
    /\ last.before[1].name = "Benny" /\ schedule[1].name = "Ben"
    /\ last.before[2].name = "Cyrus" /\ schedule[2].name = "Cyrus"

\* C28: the chat history is chronological after every save_chat_message,
\* on_message and load of a DM history: its entries are in non-decreasing
\* timestamp order.
C28_ChatHistoryChronological ==
    \A i \in 1 .. Len(chat_history) - 1 :
        chat_history[i].timestamp <= chat_history[i + 1].timestamp

\* the handle at position i of msgs cannot be reached: its guild or its channel
\* is missing, or its fetch or edit raised NotFound or Forbidden
Unreachable(msgs, outcome, i) ==
    \/ get_guild(msgs[i].guild_id) = NoGuild
    \/ msgs[i].channel_id \notin get_guild(msgs[i].guild_id).channels
    \/ outcome[i] \in {"not_found", "forbidden", "edit_not_found"}

\* C29: after update_all_schedule_messages the active list holds no handle whose
\* guild or channel is missing or whose fetch or edit raised NotFound or
\* Forbidden, still holds every handle that was re-rendered, in the order they
\* had, and the list saved to active_messages.json is the list in memory.
C29_UnreachableHandlesPruned ==
    last.op = "update_all_messages"
    => LET msgs == last.before
           outcome == last.arg
           held == { active_messages[j] : j \in 1 .. Len(active_messages) }
       IN /\ \A i \in 1 .. Len(msgs) :
                /\ Unreachable(msgs, outcome, i) => msgs[i] \notin held
                /\ (~Unreachable(msgs, outcome, i) /\ outcome[i] = "ok")
                   => msgs[i] \in held
          /\ active_messages =
                SelectSeq(msgs, LAMBDA m : m \in held)
          /\ last.value = active_messages

\* of three handles the one in a deleted channel and the one whose message was
\* deleted went, the one re-rendered stayed
C29_Witness ==
    /\ last.op = "update_all_messages"
    /\ Len(last.before) = 3
    /\ Len(guilds) = 2
    /\ last.arg[2] = "ok"
    /\ last.arg[3] = "not_found"
    /\ active_messages = << last.before[2] >>

\* C30: a web handler waiting on a dispatched coroutine always answers: when
\* the coroutine has not finished after 5 s (fetch-and-send) or 10 s (load DM
\* history) the answer has success = false, and no request waits longer.
C30_DispatchTimesOut ==
    /\ [][ /\ web_thread' # Idle
              => web_thread'.waited <= IF web_thread'.op = "send_chat" THEN 5 ELSE 10
           /\ (web_thread # Idle /\ web_thread' = Idle
               /\ web_thread.future = "pending")
              => /\ last'.result = "failure"
                 /\ last'.value = IF web_thread.op = "send_chat" THEN 5 ELSE 10 ]_vars
    /\ (web_thread # Idle) ~> (web_thread = Idle)

\* /api/load-dm-history answered success = false after waiting 10 s for a
\* coroutine the event loop had not finished
C30_Witness ==
    /\ last.op = "load_dm_history"
    /\ last.result = "failure"
    /\ last.value = 10
    /\ web_thread = Idle

\* C34: get_next_study_time is strictly later than the clock reading it is
\* computed from, for the empty rotation, a head ahead, a head at or behind
\* the clock and a head that does not parse; the countdown and the time_until
\* of both reminder evaluations, which are that instant minus now, are at
\* least one second.
C34_NextStudyStrictlyAfterNow ==
    /\ get_next_study_time(schedule, now) > now
    /\ get_countdown(schedule, now) = get_next_study_time(schedule, now) - now
    /\ last.op = "countdown"
       => /\ last.value = get_next_study_time(last.before, last.at) - last.at
          /\ last.value >= 1

\* asked at the very second of the head's session: the head is not after now,
\* the answer is the Saturday a week later
C34_Witness ==
    /\ last.op = "countdown"
    /\ last.before # << >>
    /\ parse_date_string(last.before[1].date, last.at) = last.at
    /\ last.value = Week

\* how many entries of the rotation carry that id
Occurrences(sched, id) == Cardinality({i \in 1 .. Len(sched) : sched[i].id = id})

\* the sequence s turned left k times
RECURSIVE RotateLeftBy(_, _)
RotateLeftBy(s, k) == IF k = 0 THEN s ELSE RotateLeftBy(RotateLeft(s), k - 1)

\* C32: advance_schedule_if_needed and an accepted Pass leave the rotation
\* with the same length and with every id as many times as before: the ids
\* after are the ids before turned left, once by a pass and once per elapsed
\* head by an advance, also when the advance goes round its loop several times.
C32_AdvanceAndPassPermute ==
    (last.op = "advance" \/ (last.op = "pass" /\ last.result = "ok"))
    => /\ Len(schedule) = Len(last.before)
       /\ \A u \in Users : Occurrences(schedule, u) = Occurrences(last.before, u)
       /\ \E k \in 0 .. Len(last.before) :
              Ids(schedule) = RotateLeftBy(Ids(last.before), k)
       /\ last.op = "pass" => Ids(schedule) = RotateLeft(Ids(last.before))
       /\ (last.op = "advance" /\ last.result = "unchanged") => schedule = last.before

\* an advance at the session instant of a rotation whose first two entries
\* both carry that session: two heads are moved to the tail in the one call
C32_Witness ==
    /\ last.op = "advance"
    /\ last.result = "changed"
    /\ Len(last.before) = 3
    /\ Ids(last.before) = << 1, 2, 3 >>
    /\ Ids(schedule) = << 3, 1, 2 >>

\* how many messages of the outbox are the message m
Deliveries(out, m) == Cardinality({i \in 1 .. Len(out) : out[i] = m})

\* C31: a restart leaves both reminder guards unset and nothing else of the
\* reminders changed.  The first long-lead evaluation that finds the guard
\* unset inside (23h, 25h), although the DM for that session is already in
\* the outbox, attempts the DM again and, when the send succeeds, delivers it
\* a second time; the same for the short-lead ping inside (5.5h, 6.5h).  With
\* one guild a message is delivered at most once more per restart.
C31_RestartAllowsSecondReminder ==
    [][ /\ (last'.op = "restart" /\ ops' = ops + 1)
           => /\ last_reminder_date' = None
              /\ last_6h_reminder_time' = None
              /\ pc' = "sleep"
              /\ outbox' = outbox /\ dm_log' = dm_log /\ schedule' = schedule
        /\ (pc = "send_24h" /\ last'.op = "send_24h" /\ schedule # << >>)
           => LET next_study == get_next_study_time(schedule, now)
                  dm == [kind |-> "dm", to |-> schedule[1].id, study |-> next_study]
              IN (/\ last_reminder_date = None
                  /\ InLongWindow(next_study - now)
                  /\ schedule[1].id \in guilds[1].members
                  /\ Deliveries(outbox, dm) >= 1)
                 => /\ Len(dm_log') = Len(dm_log) + 1
                    /\ outbox' \in { outbox, Append(outbox, dm) }
                    /\ last'.result = "sent" <=> outbox' = Append(outbox, dm)
        /\ (pc = "send_6h" /\ last'.op = "send_6h" /\ schedule # << >>)
           => LET next_study == get_next_study_time(schedule, now)
                  ping == [kind |-> "channel", to |-> schedule[1].id, study |-> next_study]
              IN (/\ last_6h_reminder_time = None
                  /\ InShortWindow(next_study - now)
                  /\ Deliveries(outbox, ping) >= 1)
                 => /\ Len(dm_log') = Len(dm_log) + 1
                    /\ outbox' \in { outbox, Append(outbox, ping) }
                    /\ last'.result = "sent" <=> outbox' = Append(outbox, ping)
        /\ \A i \in 1 .. Len(outbox') : Deliveries(outbox', outbox'[i]) <= 1 + ops'
      ]_vars

\* the long-lead DM for the anchor session was delivered, the process was
\* restarted inside the window, and the next tick delivered the DM again
C31_Witness ==
    /\ last.op = "send_24h"
    /\ last.result = "sent"
    /\ ops = 1
    /\ InLongWindow(Anchor - last.at)
    /\ Deliveries(outbox, LongLeadSent) = 2

\* the same for the short-lead ping: two pings for the anchor session, a
\* restart between them
C31_ShortLeadRepeated ==
    /\ last.op = "send_6h"
    /\ last.result = "sent"
    /\ ops = 1
    /\ InShortWindow(Anchor - last.at)
    /\ Deliveries(outbox, ShortLeadSent) = 2

\* C33: on the event loop a coroutine that has loaded the rotation and not
\* yet saved it holds the rotation that is stored: no other coroutine wrote
\* between its load and its save, at most one coroutine is between load and
\* save at a time, and the save that has just happened was computed from the
\* rotation stored immediately before it.  This also holds while other
\* handlers are suspended at the awaits that follow their own save.
C33_ChatLoadSaveAtomic ==
    /\ \A i \in 1 .. Len(tasks) : tasks[i].at = "loaded" => tasks[i].loaded = schedule
    /\ Cardinality({i \in 1 .. Len(tasks) : tasks[i].at = "loaded"}) <= 1
    /\ (last.op \in ChatOps /\ last.result = "saved" /\ LoopFree)
       => schedule = Saved(Coroutine(last.op, last.arg, "loaded", last.before), last.at)

\* /add has saved and is suspended at an await; the Pass button pressed by
\* the head meanwhile has loaded the rotation, and it holds the added entry
C33_Witness ==
    /\ Len(tasks) = 2
    /\ tasks[1].op = "add" /\ tasks[1].at = "await"
    /\ tasks[2].op = "pass" /\ tasks[2].at = "loaded"
    /\ Len(tasks[2].loaded) = 3
    /\ tasks[2].loaded[3].id = tasks[1].arg

====
